---- MODULE Spec2Model ----
(***************************************************************************)
(* Pipeline coordinator of magnet-task-template: mode selection, the       *)
(* piece-availability gate, the two streaming upload loops (the RPC script *)
(* src/stream_upload.js and streamingDownloadAndUpload of                  *)
(* src/unnamed/part_000) and the download supervisors.                     *)
(*                                                                         *)
(* Sizes are counted in an abstract unit that keeps the order of the       *)
(* program's constants: 4 MiB < CHUNK_SIZE (30 MiB) < LARGE_FILE_THRESHOLD *)
(* (13 GiB).  Times are counted in stall-checker periods (30 s).           *)
(***************************************************************************)
EXTENDS Integers, Sequences, FiniteSets, TLC

\* ---------------------------------------------------------------- constants
\* part_000:14 and stream_upload.js:7, const CHUNK_SIZE = 30 MiB
CHUNK_SIZE == 2
\* part_000:15, const LARGE_FILE_THRESHOLD = 13 GiB
LARGE_FILE_THRESHOLD == 3
\* stream_upload.js:10, const LARGE_FILE_THRESHOLD = 14 GiB
RPC_LARGE_FILE_THRESHOLD == 3
\* stream_upload.js:9, const MIN_FREE_SPACE = 2 GiB
MIN_FREE_SPACE == 2
\* part_000:29 and 85, stallTimeout = 30 minutes, in stall-checker periods
STALL_TIMEOUT == 2
\* part_000:680, minInterval = 10000 ms, in units of 5 s
minInterval == 2
\* part_000:161 and 164, the placeholder's totalSize = 1 GiB: below the threshold
PLACEHOLDER_SIZE == 2
\* part_000:617, fileSize <= 4 MiB takes the direct PUT: below one chunk
SMALL_FILE_LIMIT == 1

\* ------------------------------------------------------------------- bounds
MaxModeSize == 12
MaxFileCount == 3
MaxHexLen == 2
MaxPieceLength == 2
MaxGateTotal == 8

\* largest payload of a streaming run, and most poll callbacks alive at once
MaxTotal == 4
MaxRpcTotal == 5
MaxCallbacks == 2
\* largest time budget (TIMEOUT_HOURS), in stall-checker periods
MaxTimeBudget == 3
\* the reporter's clock at its creation, and how far it runs from there
StartClock == 3
MaxRepClock == 5
\* the largest file a download leaves: two whole chunks and a short one
MaxFileSize == 5
\* the longest listing of a run that is composed with the reporter
MaxReportedFiles == 2
\* the probes of the start-up loops (60 in the code)
MaxProbes == 3

VARIABLES
    sel,    \* main (part_000): metadata.totalSize, metadata.fileCount, fileCount, mode
    gate,   \* one application of getUploadablePrefix: its arguments and result
    job,    \* a streaming run: script, totalSize, pieceLength, useSequential
    engine, \* the download engine: alive, status, bits (the completed pieces)
    uploadedBytes,  \* the upload cursor
    isPaused,       \* stream_upload.js:134
    isCompleted,    \* stream_upload.js:135
    cbs,    \* the poll callbacks in flight (a bag): pc, uploadableEnd, start, chunkEnd
    main,   \* the run's main task: pc, and the range of its PUT in flight
    srv,    \* the upload session: the offset the remote object expects next
    punched,    \* offsets of the chunks reclaimed by truncateFile
    lastSent,   \* the range of the PUT dispatched last (seq flips at each dispatch)
    lastPrefix, \* the prefix the gate returned at the latest poll
    now,        \* Date.now(), in stall-checker periods
    lastProgressTime,
    lastProgress,   \* part_000:185, the highest percentage seen (normal mode)
    timers,     \* which timers are set, when they were set and when they are due
    promise,    \* the download promise: pending, resolved, rejected
    outcome,    \* how the run ended
    fired,      \* which kill branches have run: stall, max
    rep,    \* the progress reporter: clock, lastReport, POSTs pending, emissions
    meta,   \* fetchMetadata: what was parsed, the child, the promise
    dir,    \* the download directory: its entries, in readdirSync order
    allFiles,       \* part_000:245, the files normal mode is uploading
    uploadedFiles,  \* the UploadedFileRecords pushed so far (their names)
    up,     \* the uploadToOneDrive call in progress: its file and its requests
    callback    \* CALLBACK_URL is set or not, and what was posted to it

miscVars == <<sel, gate, rep, meta>>
fileVars == <<dir, allFiles, uploadedFiles, up, callback>>
otherVars == <<miscVars, fileVars>>
streamVars == <<job, engine, uploadedBytes, isPaused, isCompleted, cbs, main, srv,
                punched, lastSent, lastPrefix>>
supVars == <<now, lastProgressTime, lastProgress, timers, promise, outcome, fired>>
vars == <<miscVars, fileVars, streamVars, supVars>>

Min(a, b) == IF a <= b THEN a ELSE b
Max(a, b) == IF a >= b THEN a ELSE b

\* ===================================================== Mode Selector (main)
\* part_000:58-61
\*   isLarge = totalSize > LARGE_FILE_THRESHOLD; isMultiFile = fileCount > 1;
\*   mode = !isLarge ? 'normal' : (isMultiFile ? 'sequential' : 'streaming')
SelectMode_Boundary(totalSize, fileCount) ==
    LET isLarge == totalSize >= LARGE_FILE_THRESHOLD
        isMultiFile == fileCount > 1
    IN  IF ~isLarge THEN "normal"
        ELSE IF isMultiFile THEN "sequential" ELSE "streaming"

SelectMode(totalSize, fileCount) ==
    LET isLarge == totalSize > LARGE_FILE_THRESHOLD
        isMultiFile == fileCount > 1
    IN  IF ~isLarge THEN "normal"
        ELSE IF isMultiFile THEN "sequential" ELSE "streaming"

\* part_000:50, fileCount = metadata.fileCount || 1
FileCountOrOne(metaFileCount) == IF metaFileCount = 0 THEN 1 ELSE metaFileCount

SelIdle == [totalSize |-> 0, metaFileCount |-> 0, fileCount |-> 0, mode |-> "idle"]

InitSel ==
    \E s \in 0..MaxModeSize, c \in 0..MaxFileCount :
        sel = [totalSize |-> s, metaFileCount |-> c, fileCount |-> 0, mode |-> "none"]

\* part_000:47-62: the metadata is read once and the mode is computed once
MainSelectMode ==
    /\ sel.mode = "none"
    /\ LET fc == FileCountOrOne(sel.metaFileCount)
       IN  sel' = [sel EXCEPT !.fileCount = fc,
                              !.mode = SelectMode(sel.totalSize, fc)]
    /\ UNCHANGED <<gate, rep, meta, fileVars, streamVars, supVars>>

\* ============================================ Piece-Availability Gate
\* Number.prototype.toString(2): binary digits, most significant first
RECURSIVE ToBinaryString(_)
ToBinaryString(n) ==
    IF n < 2 THEN <<n>> ELSE Append(ToBinaryString(n \div 2), n % 2)

\* String.prototype.padStart(4, '0')
PadStart4(s) ==
    IF Len(s) >= 4 THEN s ELSE [i \in 1..(4 - Len(s)) |-> 0] \o s

\* the same loop without padStart: the digits of each character run together
RECURSIVE HexToBinary_NoPad(_)
HexToBinary_NoPad(hex) ==
    IF hex = <<>> THEN <<>>
    ELSE ToBinaryString(Head(hex)) \o HexToBinary_NoPad(Tail(hex))

\* stream_upload.js:221-224: binary += parseInt(char, 16).toString(2).padStart(4, '0')
RECURSIVE HexToBinary(_)
HexToBinary(hex) ==
    IF hex = <<>> THEN <<>>
    ELSE PadStart4(ToBinaryString(Head(hex))) \o HexToBinary(Tail(hex))

\* the counting loop without its break: every set bit is counted
RECURSIVE CountContinuous_NoBreak(_)
CountContinuous_NoBreak(binary) ==
    IF binary = <<>> THEN 0
    ELSE (IF Head(binary) = 1 THEN 1 ELSE 0) + CountContinuous_NoBreak(Tail(binary))

\* stream_upload.js:226-233: count bits until the first bit that is not '1'
RECURSIVE CountContinuous(_)
CountContinuous(binary) ==
    IF binary = <<>> THEN 0
    ELSE IF Head(binary) = 1 THEN 1 + CountContinuous(Tail(binary))
    ELSE 0

\* stream_upload.js:218-236
getUploadablePrefix(hexBitfield, pieceLength, totalSize) ==
    IF hexBitfield = <<>> THEN 0
    ELSE Min(CountContinuous(HexToBinary(hexBitfield)) * pieceLength, totalSize)

HexStrings(n) == UNION {[1..k -> 0..15] : k \in 0..n}

GateIdle == [hexBitfield |-> <<>>, pieceLength |-> 0, totalSize |-> 0, result |-> -2]

InitGate ==
    \E h \in HexStrings(MaxHexLen), p \in 1..MaxPieceLength, t \in 0..MaxGateTotal :
        gate = [hexBitfield |-> h, pieceLength |-> p, totalSize |-> t, result |-> -1]

\* stream_upload.js:156, one call of the gate
GateApply ==
    /\ gate.result = -1
    /\ gate' = [gate EXCEPT !.result =
                    getUploadablePrefix(gate.hexBitfield, gate.pieceLength, gate.totalSize)]
    /\ UNCHANGED <<sel, rep, meta, fileVars, streamVars, supVars>>

\* ================================================== streaming runs: shared
\* bags of callback records
BagAdd(B, r) == IF r \in DOMAIN B THEN [B EXCEPT ![r] = @ + 1] ELSE B @@ (r :> 1)
BagRemove(B, r) ==
    IF B[r] = 1 THEN [x \in DOMAIN B \ {r} |-> B[x]] ELSE [B EXCEPT ![r] = @ - 1]
BagReplace(B, r, r2) == BagAdd(BagRemove(B, r), r2)
RECURSIVE BagCount(_, _)
BagCount(B, S) ==
    IF S = {} THEN 0
    ELSE LET r == CHOOSE x \in S : TRUE IN B[r] + BagCount(B, S \ {r})
BagSize(B) == BagCount(B, DOMAIN B)
NoCallbacks == <<>>

Callback(pc, uploadableEnd, start, chunkEnd) ==
    [pc |-> pc, uploadableEnd |-> uploadableEnd, start |-> start, chunkEnd |-> chunkEnd]

NumPieces(totalSize, pieceLength) == (totalSize + pieceLength - 1) \div pieceLength

\* tellStatus, "bitfield": hexadecimal, the highest bit of the first character is
\* piece 0, whole bytes (two characters for every 8 pieces), spare bits 0
EngineBitfield(bits, numPieces) ==
    [c \in 1..(2 * ((numPieces + 7) \div 8)) |->
        (IF 4 * (c - 1) \in bits THEN 8 ELSE 0) + (IF 4 * (c - 1) + 1 \in bits THEN 4 ELSE 0)
        + (IF 4 * (c - 1) + 2 \in bits THEN 2 ELSE 0) + (IF 4 * (c - 1) + 3 \in bits THEN 1 ELSE 0)]

\* stream_upload.js:238-245, getFreeSpace(): the samples df can give, around
\* the two watermarks
FreeSpaceSamples ==
    {MIN_FREE_SPACE - 1, MIN_FREE_SPACE, MIN_FREE_SPACE + 1,
     2 * MIN_FREE_SPACE, 2 * MIN_FREE_SPACE + 1}

\* the process living on after a rejection
Running_Always == TRUE

\* the process is gone after process.exit(1) (main().catch)
Running == main.pc # "failed"

\* the PUTs in flight: those of the poll callbacks and the one of the main task
PollPuts == {r \in DOMAIN cbs : r.pc = "put"}
InFlightPuts == BagCount(cbs, PollPuts) + (IF main.pc = "put" THEN 1 ELSE 0)

\* a PUT is dispatched: the range is remembered, seq flips
Sent(start, chunkEnd) == [start |-> start, chunkEnd |-> chunkEnd, seq |-> 1 - lastSent.seq]

\* uploadChunk, the await of axios.put (stream_upload.js:290-297, part_000:652):
\* the request can always fail; it can succeed for a range that appends to the
\* remote object or repeats bytes the session has received already, never for a
\* range that would leave a gap
SessionAccepts(start) == start <= srv

\* the engine finishes a piece, in any order (BitTorrent piece selection)
EngineCompletePiece ==
    /\ Running
    /\ engine.proc = "running" /\ engine.status = "active"
    /\ \E p \in 0..(NumPieces(job.totalSize, job.pieceLength) - 1) \ engine.bits :
        LET bits == engine.bits \cup {p}
            all == bits = 0..(NumPieces(job.totalSize, job.pieceLength) - 1)
        IN  engine' = [engine EXCEPT !.bits = bits,
                                     !.status = IF all THEN "complete" ELSE @]
    /\ UNCHANGED <<otherVars, supVars, job, uploadedBytes, isPaused, isCompleted, cbs, main, srv,
                   punched, lastSent, lastPrefix>>

\* stream_upload.js:185: the engine process ends and 'close' is emitted
RpcEngineClose ==
    /\ job.script = "rpc"
    /\ engine.proc = "running"
    /\ engine' = [engine EXCEPT !.proc = "closed", !.code = 1]
    /\ UNCHANGED <<otherVars, supVars, job, uploadedBytes, isPaused, isCompleted, cbs, main, srv,
                   punched, lastSent, lastPrefix>>

\* ===================================== stream_upload.js: the RPC poll loop
\* stream_upload.js:155, parseInt(status.pieceLength) || CHUNK_SIZE
ParsePieceLength(p) == IF p = 0 THEN CHUNK_SIZE ELSE p

\* stream_upload.js:158 with the guard < instead of + CHUNK_SIZE <=
RpcLoopNext_Partial(u, uploadableEnd) ==
    IF u < uploadableEnd
    THEN Callback("put", uploadableEnd, u, u + CHUNK_SIZE)
    ELSE Callback("end", uploadableEnd, 0, 0)

\* stream_upload.js:158-160: the loop test and, when it passes, the next PUT
RpcLoopNext(u, uploadableEnd) ==
    IF u + CHUNK_SIZE <= uploadableEnd
    THEN Callback("put", uploadableEnd, u, u + CHUNK_SIZE)
    ELSE Callback("end", uploadableEnd, 0, 0)

\* callback r goes on with the while loop at cursor u, or ends
RpcContinue(r, u) ==
    LET nx == RpcLoopNext(u, r.uploadableEnd)
    IN  IF nx.pc = "put"
        THEN /\ cbs' = BagReplace(cbs, r, nx)
             /\ lastSent' = Sent(nx.start, nx.chunkEnd)
        ELSE /\ cbs' = BagRemove(cbs, r)
             /\ UNCHANGED lastSent

\* stream_upload.js:137, the interval fires: a callback starts and awaits tellStatus
RpcPollFire ==
    /\ job.script = "rpc" /\ Running
    /\ main.pc = "wait"
    /\ BagSize(cbs) < MaxCallbacks
    /\ cbs' = BagAdd(cbs, Callback("tellStatus", 0, 0, 0))
    /\ UNCHANGED <<otherVars, supVars, job, engine, uploadedBytes, isPaused, isCompleted, main, srv,
                   punched, lastSent, lastPrefix>>

\* stream_upload.js:139-160: tellStatus answers; up to the next await;
\* freeSpace is what getFreeSpace() returns at line 147
RpcPollStatusOn(freeSpace) ==
    /\ job.script = "rpc" /\ Running
    /\ \E r \in DOMAIN cbs :
        /\ r.pc = "tellStatus"
        /\ IF engine.proc # "running"
           THEN \* the RPC throws: catch, 'Loop error'
                /\ cbs' = BagRemove(cbs, r)
                /\ UNCHANGED <<isCompleted, lastSent, lastPrefix>>
           ELSE IF engine.status = "complete"
           THEN /\ isCompleted' = TRUE
                /\ cbs' = BagRemove(cbs, r)
                /\ UNCHANGED <<lastSent, lastPrefix>>
           ELSE LET bitfield == EngineBitfield(engine.bits,
                                    NumPieces(job.totalSize, job.pieceLength))
                    pieceLength == ParsePieceLength(job.pieceLength)
                    uploadableEnd == getUploadablePrefix(bitfield, pieceLength, job.totalSize)
                    rr == [r EXCEPT !.uploadableEnd = uploadableEnd]
                IN  /\ lastPrefix' = uploadableEnd
                    /\ UNCHANGED isCompleted
                    /\ IF freeSpace < MIN_FREE_SPACE /\ ~isPaused
                       THEN /\ cbs' = BagReplace(cbs, r, [rr EXCEPT !.pc = "pause"])
                            /\ UNCHANGED lastSent
                       ELSE LET nx == RpcLoopNext(uploadedBytes, uploadableEnd)
                            IN  IF nx.pc = "put"
                                THEN /\ cbs' = BagReplace(cbs, r, nx)
                                     /\ lastSent' = Sent(nx.start, nx.chunkEnd)
                                ELSE /\ cbs' = BagRemove(cbs, r)
                                     /\ UNCHANGED lastSent
    /\ UNCHANGED <<otherVars, supVars, job, engine, uploadedBytes, isPaused, main, srv, punched>>

RpcPollStatus == \E freeSpace \in FreeSpaceSamples : RpcPollStatusOn(freeSpace)

\* stream_upload.js:150-160: the pause RPC answers
RpcPollPauseDone ==
    /\ job.script = "rpc" /\ Running
    /\ \E r \in DOMAIN cbs :
        /\ r.pc = "pause"
        /\ IF engine.proc = "running" /\ engine.status = "active"
           THEN /\ engine' = [engine EXCEPT !.status = "paused"]
                /\ isPaused' = TRUE
                /\ RpcContinue(r, uploadedBytes)
           ELSE \* the RPC throws: catch
                /\ cbs' = BagRemove(cbs, r)
                /\ UNCHANGED <<engine, isPaused, lastSent>>
    /\ UNCHANGED <<otherVars, supVars, job, uploadedBytes, isCompleted, main, srv, punched, lastPrefix>>

\* the resume test with the low watermark in place of the high one
ResumeNow_LowMark(paused, newFreeSpace) == paused /\ newFreeSpace > MIN_FREE_SPACE

\* stream_upload.js:170-172: if (isPaused) ... if (newFreeSpace > MIN_FREE_SPACE * 2)
ResumeNow(paused, newFreeSpace) == paused /\ newFreeSpace > MIN_FREE_SPACE * 2

\* stream_upload.js:171-174: the callback awaits the unpause RPC; newFreeSpace
\* is the sample it has just read
Unpausing(uploadableEnd, newFreeSpace) ==
    [pc |-> "unpause", uploadableEnd |-> uploadableEnd, start |-> 0, chunkEnd |-> 0,
     newFreeSpace |-> newFreeSpace]

\* stream_upload.js:160-177: the chunk PUT resolves; truncate, advance the
\* cursor, the resume check, and the loop again
RpcPollPutOk ==
    /\ job.script = "rpc" /\ Running
    /\ \E r \in DOMAIN cbs :
        /\ r.pc = "put"
        /\ SessionAccepts(r.start)
        /\ srv' = Max(srv, r.chunkEnd)
        /\ punched' = IF job.useSequential THEN punched \cup {uploadedBytes} ELSE punched
        /\ uploadedBytes' = r.chunkEnd
        /\ \E newFreeSpace \in FreeSpaceSamples :
            IF ResumeNow(isPaused, newFreeSpace)
            THEN /\ cbs' = BagReplace(cbs, r, Unpausing(r.uploadableEnd, newFreeSpace))
                 /\ UNCHANGED lastSent
            ELSE RpcContinue(r, r.chunkEnd)
    /\ UNCHANGED <<otherVars, supVars, job, engine, isPaused, isCompleted, main, lastPrefix>>

\* stream_upload.js:160, 178-180: the chunk PUT rejects; catch, 'Loop error'
RpcPollPutFail ==
    /\ job.script = "rpc" /\ Running
    /\ \E r \in DOMAIN cbs :
        /\ r.pc = "put"
        /\ cbs' = BagRemove(cbs, r)
        /\ UNCHANGED srv
    /\ UNCHANGED <<otherVars, supVars, job, engine, uploadedBytes, isPaused, isCompleted, main,
                   punched, lastSent, lastPrefix>>

\* stream_upload.js:173-177: the unpause RPC answers
RpcPollUnpauseDone ==
    /\ job.script = "rpc" /\ Running
    /\ \E r \in DOMAIN cbs :
        /\ r.pc = "unpause"
        /\ IF engine.proc = "running" /\ engine.status = "paused"
           THEN /\ engine' = [engine EXCEPT !.status = "active"]
                /\ isPaused' = FALSE
                /\ RpcContinue(r, uploadedBytes)
           ELSE /\ cbs' = BagRemove(cbs, r)
                /\ UNCHANGED <<engine, isPaused, lastSent>>
    /\ UNCHANGED <<otherVars, supVars, job, uploadedBytes, isCompleted, main, srv, punched, lastPrefix>>

\* stream_upload.js:198-205: the final loop test and, when it passes, the next PUT
RpcFlushNext(u) ==
    IF u < job.totalSize
    THEN /\ main' = [pc |-> "put", start |-> u, chunkEnd |-> Min(u + CHUNK_SIZE, job.totalSize)]
         /\ lastSent' = Sent(u, Min(u + CHUNK_SIZE, job.totalSize))
    ELSE /\ main' = [pc |-> "done", start |-> 0, chunkEnd |-> 0]
         /\ UNCHANGED lastSent

\* stream_upload.js:184-200: aria2 closed, or checkComplete saw isCompleted;
\* clearInterval(uploadLoop) and the first chunk of the remainder
RpcMainWake ==
    /\ job.script = "rpc"
    /\ main.pc = "wait"
    /\ engine.proc = "closed" \/ isCompleted
    /\ RpcFlushNext(uploadedBytes)
    /\ UNCHANGED <<otherVars, supVars, job, engine, uploadedBytes, isPaused, isCompleted, cbs, srv,
                   punched, lastPrefix>>

\* stream_upload.js:200-203: a PUT of the remainder resolves
RpcMainPutOk ==
    /\ job.script = "rpc"
    /\ main.pc = "put"
    /\ SessionAccepts(main.start)
    /\ srv' = Max(srv, main.chunkEnd)
    /\ uploadedBytes' = main.chunkEnd
    /\ RpcFlushNext(main.chunkEnd)
    /\ UNCHANGED <<otherVars, supVars, job, engine, isPaused, isCompleted, cbs, punched, lastPrefix>>

\* stream_upload.js:200, 304-307: a PUT of the remainder rejects; process.exit(1)
RpcMainPutFail ==
    /\ job.script = "rpc"
    /\ main.pc = "put"
    /\ main' = [pc |-> "failed", start |-> 0, chunkEnd |-> 0]
    /\ cbs' = NoCallbacks   \* process.exit(1): the callbacks in flight are gone
    /\ UNCHANGED <<otherVars, supVars, job, engine, uploadedBytes, isPaused, isCompleted, srv,
                   punched, lastSent, lastPrefix>>

NoJob == [script |-> "none", totalSize |-> 0, pieceLength |-> 0, useSequential |-> FALSE,
          maxTime |-> 0, fileCount |-> 0]

StreamIdle ==
    /\ job = NoJob
    /\ engine = [proc |-> "none", status |-> "none", bits |-> {}, code |-> 0]
    /\ uploadedBytes = 0 /\ isPaused = FALSE /\ isCompleted = FALSE
    /\ cbs = NoCallbacks
    /\ main = [pc |-> "idle", start |-> 0, chunkEnd |-> 0]
    /\ srv = 0 /\ punched = {} /\ lastPrefix = 0
    /\ lastSent = [start |-> 0, chunkEnd |-> 0, seq |-> 0]

NoTimers == [pollLoop |-> FALSE, stallChecker |-> FALSE, maxTimer |-> FALSE,
             stallDue |-> 0, maxDue |-> 0, setAt |-> 0]
NothingFired == [stall |-> FALSE, max |-> FALSE]

SupIdle ==
    /\ now = 0 /\ lastProgressTime = 0 /\ lastProgress = 0
    /\ timers = NoTimers
    /\ promise = "none" /\ outcome = "none"
    /\ fired = NothingFired

\* stream_upload.js:84-135: the download is active, the session is open
InitRpcRun ==
    /\ \E t \in (CHUNK_SIZE + 1)..MaxRpcTotal, p \in 1..MaxPieceLength :
        job = [NoJob EXCEPT !.script = "rpc", !.totalSize = t, !.pieceLength = p,
                            !.useSequential = t > RPC_LARGE_FILE_THRESHOLD]
    /\ engine = [proc |-> "running", status |-> "active", bits |-> {}, code |-> 0]
    /\ uploadedBytes = 0 /\ isPaused = FALSE /\ isCompleted = FALSE
    /\ cbs = NoCallbacks
    /\ main = [pc |-> "wait", start |-> 0, chunkEnd |-> 0]
    /\ srv = 0 /\ punched = {} /\ lastPrefix = 0
    /\ lastSent = [start |-> 0, chunkEnd |-> 0, seq |-> 0]

\* ============ part_000: streamingDownloadAndUpload (aria2c child process)
\* part_000:356, fs.statSync(actualFile).size: with --file-allocation=none the
\* file ends where the highest piece written so far ends
FileSize(bits) ==
    IF bits = {} THEN 0
    ELSE LET top == CHOOSE p \in bits : \A q \in bits : q <= p
         IN  Min((top + 1) * job.pieceLength, job.totalSize)

AllPieces == 0..(NumPieces(job.totalSize, job.pieceLength) - 1)

\* aria2.kill(): SIGTERM to a running child; 'close' follows later
Killed(e) == IF e.proc = "running" THEN [e EXCEPT !.proc = "killed"] ELSE e

\* Date.now() - lastProgressTime > stallTimeout (part_000:194, 370, 389, 516)
StalledAt(t, last) == t - last > STALL_TIMEOUT

\* part_000:359-361: the loop test and, when it passes, the next PUT
CliLoopNext(u, uploadEnd) ==
    IF u + CHUNK_SIZE <= uploadEnd
    THEN Callback("put", uploadEnd, u, Min(u + CHUNK_SIZE, uploadEnd))
    ELSE Callback("end", uploadEnd, 0, 0)

\* part_000:352-361, the pollLoop interval fires: no await before the first PUT
CliPollFire ==
    /\ job.script = "cli" /\ Running
    /\ timers.pollLoop
    /\ BagSize(cbs) < MaxCallbacks
    /\ LET downloadedBytes == FileSize(engine.bits)
           uploadEnd == Min(downloadedBytes, job.totalSize)
           nx == CliLoopNext(uploadedBytes, uploadEnd)
       IN  /\ \/ 10 * (downloadedBytes - uploadedBytes) >= job.totalSize  \* uploadInterval
              \/ downloadedBytes >= job.totalSize
           /\ nx.pc = "put"
           /\ cbs' = BagAdd(cbs, nx)
           /\ lastSent' = Sent(nx.start, nx.chunkEnd)
    /\ UNCHANGED <<otherVars, supVars, job, engine, uploadedBytes, isPaused, isCompleted,
                   main, srv, punched, lastPrefix>>

\* part_000:361-364: the chunk PUT resolves; the cursor moves, the loop again
CliPollPutOk ==
    /\ job.script = "cli" /\ Running
    /\ \E r \in DOMAIN cbs :
        /\ r.pc = "put"
        /\ SessionAccepts(r.start)
        /\ srv' = Max(srv, r.chunkEnd)
        /\ uploadedBytes' = r.chunkEnd
        /\ LET nx == CliLoopNext(r.chunkEnd, r.uploadableEnd)
           IN  IF nx.pc = "put"
               THEN /\ cbs' = BagReplace(cbs, r, nx)
                    /\ lastSent' = Sent(nx.start, nx.chunkEnd)
               ELSE /\ cbs' = BagRemove(cbs, r)
                    /\ UNCHANGED lastSent
    /\ UNCHANGED <<otherVars, supVars, job, engine, isPaused, isCompleted, main, punched,
                   lastPrefix>>

\* part_000:361, 366: the chunk PUT rejects; catch, 'Poll error'
CliPollPutFail ==
    /\ job.script = "cli" /\ Running
    /\ \E r \in DOMAIN cbs :
        /\ r.pc = "put"
        /\ cbs' = BagRemove(cbs, r)
        /\ UNCHANGED srv
    /\ UNCHANGED <<otherVars, supVars, job, engine, uploadedBytes, isPaused, isCompleted,
                   main, punched, lastSent, lastPrefix>>

\* what a chunk of aria2's output can hold: a connection count (CN:n), a
\* percentage (its value, in steps), or neither
StdoutChunks ==
    {[cn |-> 0, progressMatch |-> FALSE, progress |-> 0],
     [cn |-> 0, progressMatch |-> TRUE, progress |-> 0],
     [cn |-> 0, progressMatch |-> TRUE, progress |-> 1],
     [cn |-> 1, progressMatch |-> TRUE, progress |-> 1],
     [cn |-> 1, progressMatch |-> TRUE, progress |-> 2]}

\* part_000:316-323, a chunk of aria2's stdout: any 'NN%' or a CN above 0
\* refreshes lastProgressTime.  Output written before the child died is still
\* delivered until 'close'.
CliStdoutOn(chunk) ==
    /\ job.script = "cli" /\ Running
    /\ engine.proc \in {"running", "killed", "exited"}
    /\ lastProgressTime' = IF chunk.cn > 0 \/ chunk.progressMatch
                           THEN now ELSE lastProgressTime
    /\ UNCHANGED <<otherVars, streamVars, now, lastProgress, timers, promise, outcome, fired>>

CliStdout == \E chunk \in StdoutChunks : CliStdoutOn(chunk)

\* ======= part_000: the download directory and what the engine leaves in it
\* an entry of a directory: a file, a directory with its entries, the saved
\* <hash>.torrent, or a <name>.aria2 control file; entry is the index of the
\* torrent's file the bytes belong to (0 when that does not matter)
File(name, entry, size) ==
    [kind |-> "file", name |-> name, entry |-> entry, size |-> size, children |-> <<>>]
Directory(name, entry, children) ==
    [kind |-> "dir", name |-> name, entry |-> entry, size |-> 0, children |-> children]
TorrentFile == [kind |-> "torrent", name |-> 0, entry |-> 0, size |-> 1, children |-> <<>>]
ControlFile == [kind |-> "aria2", name |-> 0, entry |-> 0, size |-> 1, children |-> <<>>]

\* the filter switched off: control files count as payload
IsPayloadName_All(f) == TRUE

\* part_000:173, 235, 550: !f.endsWith('.torrent') && !f.endsWith('.aria2')
IsPayloadName(f) == f.kind \notin {"torrent", "aria2"}

\* part_000:169-176, getAllFiles: depth first, in readdirSync order
RECURSIVE getAllFiles(_)
getAllFiles(entries) ==
    IF entries = <<>> THEN <<>>
    ELSE LET file == Head(entries)
             here == IF file.kind = "dir" THEN getAllFiles(file.children)
                     ELSE IF IsPayloadName(file) THEN <<file>>
                     ELSE <<>>
         IN  here \o getAllFiles(Tail(entries))

\* what a download in normal mode leaves when it ends with code 0: nothing, one
\* file of any size, or the torrent's directory (with files, with a control
\* file and a sub-directory, or without any file)
BulkPayloads ==
    {<<>>}
    \cup {<<File(1, 1, size)>> : size \in 0..MaxFileSize}
    \cup {<<Directory(10, 0, <<File(1, 1, 1), ControlFile,
                               Directory(11, 0, <<File(2, 2, CHUNK_SIZE + 1)>>),
                               File(3, 3, 0)>>)>>,
          <<Directory(10, 0, <<ControlFile>>)>>}

\* what the download of one selected entry leaves when it ends with code 0:
\* nothing, the file (small or large), or the torrent's directory with the
\* file in it or with no file in it
SeqPayloads(entry) ==
    {<<>>,
     <<File(entry, entry, SMALL_FILE_LIMIT)>>,
     <<File(entry, entry, CHUNK_SIZE + 1)>>,
     <<Directory(10, entry, <<File(entry, entry, 1)>>)>>,
     <<Directory(10, entry, <<ControlFile>>)>>}

\* what a download that did not end with code 0 leaves: a partial file and
\* its control file
PartialPayload(entry) == <<File(entry, entry, 1), ControlFile>>

\* part_000:500, '--select-file=' + fileInfo.index: the listing numbers the
\* entries from 1
SelectFile(i) == i + 1

\* the child process ends: code 0 after a complete download, otherwise not 0;
\* by then it has written its payload to the download directory (the selected
\* entry only, in sequential mode)
EngineExit ==
    /\ job.script \in {"cli", "normal", "sequential"} /\ Running
    /\ engine.proc \in {"running", "killed"}
    /\ LET code == IF engine.proc = "running" /\ engine.status = "complete" THEN 0 ELSE 1
           entry == IF job.script = "sequential" THEN SelectFile(main.start) ELSE 1
       IN  /\ engine' = [engine EXCEPT !.proc = "exited", !.code = code]
           /\ IF job.script = "cli" THEN UNCHANGED dir
              ELSE IF code # 0 THEN dir' = dir \o PartialPayload(entry)
              ELSE IF job.script = "normal" THEN \E payload \in BulkPayloads : dir' = dir \o payload
              ELSE \E payload \in SeqPayloads(entry) : dir' = dir \o payload
    /\ UNCHANGED <<miscVars, allFiles, uploadedFiles, up, callback, supVars, job,
                   uploadedBytes, isPaused, isCompleted, cbs, main, srv, punched, lastSent,
                   lastPrefix>>

\* time passes, unless a timer that is set is due
Tick ==
    /\ Running
    /\ engine.proc # "exited"    \* 'close' follows 'exit' at once
    /\ timers.stallChecker \/ timers.maxTimer
    /\ timers.stallChecker => now < timers.stallDue
    /\ timers.maxTimer => now < timers.maxDue
    /\ now' = now + 1
    /\ UNCHANGED <<otherVars, streamVars, lastProgressTime, lastProgress, timers, promise,
                   outcome, fired>>

\* part_000:369-375, the stallChecker interval fires
CliStallChecker ==
    /\ job.script = "cli" /\ Running
    /\ timers.stallChecker /\ now >= timers.stallDue
    /\ IF StalledAt(now, lastProgressTime)
       THEN /\ timers' = [timers EXCEPT !.stallChecker = FALSE, !.pollLoop = FALSE]
            /\ engine' = Killed(engine)
            /\ fired' = [fired EXCEPT !.stall = TRUE]
       ELSE /\ timers' = [timers EXCEPT !.stallDue = @ + 1]
            /\ UNCHANGED <<engine, fired>>
    /\ UNCHANGED <<otherVars, job, uploadedBytes, isPaused, isCompleted, cbs, main, srv,
                   punched, lastSent, lastPrefix, now, lastProgressTime, lastProgress,
                   promise, outcome>>

\* part_000:378-383, maxTimer fires: the promise is rejected, main().catch exits
CliMaxTimer ==
    /\ job.script = "cli" /\ Running
    /\ timers.maxTimer /\ now >= timers.maxDue
    /\ engine' = Killed(engine)
    /\ timers' = [timers EXCEPT !.maxTimer = FALSE, !.pollLoop = FALSE, !.stallChecker = FALSE]
    /\ fired' = [fired EXCEPT !.max = TRUE]
    /\ promise' = "rejected" /\ outcome' = "TimedOut"
    /\ main' = [pc |-> "failed", start |-> 0, chunkEnd |-> 0]
    /\ cbs' = NoCallbacks   \* process.exit(1): the callbacks in flight are gone
    /\ UNCHANGED <<otherVars, job, uploadedBytes, isPaused, isCompleted, srv, punched,
                   lastSent, lastPrefix, now, lastProgressTime, lastProgress>>

\* part_000:400-403, 416-429: the final loop test against finalSize and, when
\* it passes, the next PUT; otherwise the function returns its record
CliFlushNext(u) ==
    LET finalSize == FileSize(engine.bits)
    IN  IF u < finalSize
        THEN /\ main' = [pc |-> "put", start |-> u, chunkEnd |-> Min(u + CHUNK_SIZE, finalSize)]
             /\ lastSent' = Sent(u, Min(u + CHUNK_SIZE, finalSize))
             /\ UNCHANGED outcome
        ELSE /\ main' = [pc |-> "done", start |-> 0, chunkEnd |-> 0]
             /\ outcome' = "completed"
             /\ UNCHANGED lastSent

\* part_000:385-403, aria2 'close': every timer is cleared; the promise is
\* rejected when the stall budget is exceeded now, and resolved otherwise
\* (whatever the exit code); after a resolve the final flush starts
CliClose ==
    /\ job.script = "cli" /\ Running
    /\ engine.proc = "exited"
    /\ engine' = [engine EXCEPT !.proc = "closed"]
    /\ timers' = [timers EXCEPT !.maxTimer = FALSE, !.pollLoop = FALSE, !.stallChecker = FALSE]
    /\ IF StalledAt(now, lastProgressTime)
       THEN /\ promise' = "rejected" /\ outcome' = "Stalled"
            /\ main' = [pc |-> "failed", start |-> 0, chunkEnd |-> 0]
            /\ cbs' = NoCallbacks   \* process.exit(1)
            /\ UNCHANGED lastSent
       ELSE /\ promise' = "resolved"
            /\ CliFlushNext(uploadedBytes)
            /\ UNCHANGED cbs
    /\ UNCHANGED <<otherVars, job, uploadedBytes, isPaused, isCompleted, srv, punched,
                   lastPrefix, now, lastProgressTime, lastProgress, fired>>

\* part_000:402-403: a PUT of the final flush resolves
CliMainPutOk ==
    /\ job.script = "cli"
    /\ main.pc = "put"
    /\ SessionAccepts(main.start)
    /\ srv' = Max(srv, main.chunkEnd)
    /\ uploadedBytes' = main.chunkEnd
    /\ CliFlushNext(main.chunkEnd)
    /\ UNCHANGED <<otherVars, job, engine, isPaused, isCompleted, cbs, punched, lastPrefix,
                   now, lastProgressTime, lastProgress, timers, promise, fired>>

\* part_000:402, 713: a PUT of the final flush rejects; main().catch exits
CliMainPutFail ==
    /\ job.script = "cli"
    /\ main.pc = "put"
    /\ main' = [pc |-> "failed", start |-> 0, chunkEnd |-> 0]
    /\ outcome' = "UploadFailed"
    /\ cbs' = NoCallbacks   \* process.exit(1)
    /\ UNCHANGED <<otherVars, job, engine, uploadedBytes, isPaused, isCompleted, srv, punched,
                   lastSent, lastPrefix, now, lastProgressTime, lastProgress, timers,
                   promise, fired>>

\* part_000:313-395: the child runs, the file exists, the session is open, the
\* three timers are set and the promise is pending
InitCliRun ==
    /\ \E t \in (LARGE_FILE_THRESHOLD + 1)..MaxTotal, p \in 1..MaxPieceLength,
          m \in {STALL_TIMEOUT, MaxTimeBudget} :
        job = [NoJob EXCEPT !.script = "cli", !.totalSize = t, !.pieceLength = p,
                            !.maxTime = m, !.fileCount = 1]
    /\ engine = [proc |-> "running", status |-> "active", bits |-> {}, code |-> 0]
    /\ uploadedBytes = 0 /\ isPaused = FALSE /\ isCompleted = FALSE
    /\ cbs = NoCallbacks
    /\ main = [pc |-> "wait", start |-> 0, chunkEnd |-> 0]
    /\ srv = 0 /\ punched = {} /\ lastPrefix = 0
    /\ lastSent = [start |-> 0, chunkEnd |-> 0, seq |-> 0]
    /\ now = 0 /\ lastProgressTime = 0 /\ lastProgress = 0
    /\ timers = [pollLoop |-> TRUE, stallChecker |-> TRUE, maxTimer |-> TRUE,
                 stallDue |-> 1, maxDue |-> job.maxTime, setAt |-> 0]
    /\ promise = "pending" /\ outcome = "none"
    /\ fired = NothingFired

\* ======= part_000: the supervised downloads of normalDownloadAndUpload and
\* ======= of sequentialDownloadAndUpload (one aria2c child per promise)
Failed(reason) == /\ promise' = "rejected" /\ outcome' = reason
                  /\ main' = [pc |-> "failed", start |-> 0, chunkEnd |-> 0]

\* part_000:202-214 (normal), 524-528 (sequential): stdout of the child
SupStdoutOn(chunk) ==
    /\ job.script \in {"normal", "sequential"} /\ Running
    /\ engine.proc \in {"running", "killed", "exited"}
    /\ IF job.script = "normal"
       THEN LET moved == chunk.progressMatch /\ chunk.progress > lastProgress
            IN  /\ lastProgress' = IF moved THEN chunk.progress ELSE lastProgress
                /\ lastProgressTime' = IF chunk.cn > 0 \/ moved THEN now ELSE lastProgressTime
       ELSE /\ lastProgressTime' = IF chunk.cn > 0 THEN now ELSE lastProgressTime
            /\ UNCHANGED lastProgress
    /\ UNCHANGED <<otherVars, streamVars, now, timers, promise, outcome, fired>>

SupStdout == \E chunk \in StdoutChunks : SupStdoutOn(chunk)

\* part_000:193-200 (normal), 515-522 (sequential), the stallChecker interval fires
SupStallChecker ==
    /\ job.script \in {"normal", "sequential"} /\ Running
    /\ timers.stallChecker /\ now >= timers.stallDue
    /\ IF StalledAt(now, lastProgressTime)
       THEN /\ timers' = [timers EXCEPT !.stallChecker = FALSE, !.maxTimer = FALSE]
            /\ engine' = Killed(engine)
            /\ fired' = [fired EXCEPT !.stall = TRUE]
            /\ Failed("Stalled")
       ELSE /\ timers' = [timers EXCEPT !.stallDue = @ + 1]
            /\ UNCHANGED <<engine, fired, promise, outcome, main>>
    /\ UNCHANGED <<otherVars, job, uploadedBytes, isPaused, isCompleted, cbs, srv, punched,
                   lastSent, lastPrefix, now, lastProgressTime, lastProgress>>

\* part_000:188-191 (normal, 'Max time exceeded'), 510-513 (sequential,
\* 'File timeout'): maxTimer fires; the stallChecker is left set
SupMaxTimer ==
    /\ job.script \in {"normal", "sequential"} /\ Running
    /\ timers.maxTimer /\ now >= timers.maxDue
    /\ engine' = Killed(engine)
    /\ timers' = [timers EXCEPT !.maxTimer = FALSE]
    /\ fired' = [fired EXCEPT !.max = TRUE]
    /\ Failed("TimedOut")
    /\ UNCHANGED <<otherVars, job, uploadedBytes, isPaused, isCompleted, cbs, srv, punched,
                   lastSent, lastPrefix, now, lastProgressTime, lastProgress>>

\* the exit code not looked at
ExitOk_Any(code) == TRUE

\* part_000:225, 546: code === 0 ? resolve() : reject(...)
ExitOk(code) == code = 0

\* part_000:222-226 (normal), 543-547 (sequential), aria2 'close'
SupClose ==
    /\ job.script \in {"normal", "sequential"} /\ Running
    /\ engine.proc = "exited"
    /\ engine' = [engine EXCEPT !.proc = "closed"]
    /\ timers' = [timers EXCEPT !.maxTimer = FALSE, !.stallChecker = FALSE]
    /\ IF ExitOk(engine.code)
       THEN /\ promise' = "resolved"
            /\ main' = [main EXCEPT !.pc = "upload"]
            /\ UNCHANGED outcome
       ELSE Failed("Failed")
    /\ UNCHANGED <<otherVars, job, uploadedBytes, isPaused, isCompleted, cbs, srv, punched,
                   lastSent, lastPrefix, now, lastProgressTime, lastProgress, fired>>

\* the share of the budget without the floor of two stall timeouts
PerFileTime_NoFloor(remainingTime, left) == (2 * remainingTime + left - 1) \div left

\* part_000:507-508: perFileTime = max(remainingTime / (fileCount - i) * 2,
\* stallTimeout * 2), rounded up to a whole period
PerFileTime(remainingTime, left) ==
    Max((2 * remainingTime + left - 1) \div left, STALL_TIMEOUT * 2)

\* part_000:503-522: a child is spawned for file i and its timers are set
SeqSpawn(i) ==
    /\ engine' = [proc |-> "running", status |-> "active", bits |-> {}, code |-> 0]
    /\ lastProgressTime' = now
    /\ timers' = [pollLoop |-> FALSE, stallChecker |-> TRUE, maxTimer |-> TRUE,
                  stallDue |-> now + 1,
                  maxDue |-> now + PerFileTime(job.maxTime - now, job.fileCount - i),
                  setAt |-> now]
    /\ promise' = "pending"

\* ======= part_000: uploadToOneDrive and the loops that call it
NoUpload == [pc |-> "idle", name |-> 0, fileSize |-> 0, uploaded |-> 0, requests |-> <<>>]
Request(kind, start, end, total) ==
    [kind |-> kind, start |-> start, end |-> end, total |-> total]

\* the small-file test taken strictly: a file of exactly the limit is chunked
UseDirectPut_Strict(fileSize) == fileSize < SMALL_FILE_LIMIT

\* part_000:617: if (fileSize <= 4 * 1024 * 1024)
UseDirectPut(fileSize) == fileSize <= SMALL_FILE_LIMIT

\* the chunk's end not clamped to the file's size
ChunkEnd_Unclamped(uploaded, fileSize) == uploaded + CHUNK_SIZE

\* part_000:631: const end = Math.min(uploaded + CHUNK_SIZE, fileSize)
ChunkEnd(uploaded, fileSize) == Min(uploaded + CHUNK_SIZE, fileSize)

\* the loop left one chunk early
MoreToUpload_ButLast(uploaded, fileSize) == uploaded + CHUNK_SIZE < fileSize

\* part_000:630: while (uploaded < fileSize)
MoreToUpload(uploaded, fileSize) == uploaded < fileSize

\* part_000:613-627, uploadToOneDrive up to its first await: the direct PUT of
\* the whole file, or the createUploadSession request
uploadToOneDrive(file) ==
    [pc |-> IF UseDirectPut(file.size) THEN "direct" ELSE "session",
     name |-> file.name, fileSize |-> file.size, uploaded |-> 0,
     requests |-> <<Request(IF UseDirectPut(file.size) THEN "direct" ELSE "session",
                            0, file.size, file.size)>>]

\* part_000:647-652, uploadChunk(uploadUrl, filePath, start, end, totalSize):
\* Content-Range bytes start-(end-1)/totalSize
uploadChunk(u, start, end) ==
    [u EXCEPT !.pc = "chunk",
              !.requests = Append(@, Request("chunk", start, end, u.fileSize))]

\* the clean-up left out: what is in the directory stays there
CleanUp_Skip(entries) == entries

\* part_000:495-498, 'Clean up': everything but the .torrent files is removed
CleanUp(entries) == SelectSeq(entries, LAMBDA f : f.kind = "torrent")

\* part_000:597-600, 'Delete uploaded file': downloadedItems are removed
DeleteUploaded(entries) == SelectSeq(entries, LAMBDA f : ~IsPayloadName(f))

\* the function returns uploadedFiles to main (part_000:305, 610)
Returns(records) ==
    /\ uploadedFiles' = records
    /\ main' = [pc |-> "done", start |-> main.start, chunkEnd |-> 0]
    /\ outcome' = "completed"

\* a throw outside the download promise reaches main().catch (part_000:713)
Throws(reason) ==
    /\ main' = [pc |-> "failed", start |-> main.start, chunkEnd |-> 0]
    /\ outcome' = reason

\* part_000:472-522, the loop goes on to entry i of the listing: the end of
\* the list, the budget check, the clean-up and the spawn of the next child
SeqNext(i, records, entries) ==
    IF i >= job.fileCount
    THEN /\ Returns(records)
         /\ dir' = entries
         /\ UNCHANGED <<engine, lastProgressTime, timers, promise>>
    ELSE IF now > job.maxTime
    THEN /\ Throws("TimedOut")
         /\ uploadedFiles' = records
         /\ dir' = entries
         /\ UNCHANGED <<engine, lastProgressTime, timers, promise>>
    ELSE /\ main' = [pc |-> "wait", start |-> i, chunkEnd |-> 0]
         /\ uploadedFiles' = records
         /\ dir' = CleanUp(entries)
         /\ SeqSpawn(i)
         /\ UNCHANGED outcome

\* part_000:229-271, 286-293 (normal mode after the download): the directory
\* is read; no item throws; a directory is enumerated, a file is the only
\* file; the first upload starts, or the empty list is returned
BulkInspect ==
    /\ job.script = "normal" /\ Running
    /\ main.pc = "upload"
    /\ LET items == SelectSeq(dir, IsPayloadName)
       IN  IF items = <<>>
           THEN /\ Throws("NoFiles")
                /\ UNCHANGED <<allFiles, uploadedFiles, up>>
           ELSE LET firstItem == items[1]
                    files == IF firstItem.kind = "dir"
                             THEN getAllFiles(firstItem.children) ELSE <<firstItem>>
                IN  /\ allFiles' = files
                    /\ IF files = <<>>
                       THEN /\ Returns(<<>>)
                            /\ UNCHANGED up
                       ELSE /\ up' = uploadToOneDrive(files[1])
                            /\ main' = [pc |-> "uploading", start |-> 0, chunkEnd |-> 0]
                            /\ UNCHANGED <<uploadedFiles, outcome>>
    /\ UNCHANGED <<miscVars, dir, callback, job, engine, uploadedBytes, isPaused,
                   isCompleted, cbs, srv, punched, lastSent, lastPrefix, now,
                   lastProgressTime, lastProgress, timers, promise, fired>>

\* part_000:550-587 (sequential mode after the download of entry i): the
\* directory is read; without an item, or without a file in the first item,
\* the entry is skipped (continue); otherwise the file's upload starts
SeqInspect ==
    /\ job.script = "sequential" /\ Running
    /\ main.pc = "upload"
    /\ LET downloadedItems == SelectSeq(dir, IsPayloadName)
           found == IF downloadedItems = <<>> THEN <<>>
                    ELSE IF downloadedItems[1].kind = "dir"
                    THEN getAllFiles(downloadedItems[1].children)
                    ELSE <<downloadedItems[1]>>
       IN  IF found = <<>>
           THEN /\ SeqNext(main.start + 1, uploadedFiles, dir)
                /\ UNCHANGED up
           ELSE /\ up' = uploadToOneDrive(found[1])
                /\ main' = [main EXCEPT !.pc = "uploading"]
                /\ UNCHANGED <<dir, uploadedFiles, outcome, engine, lastProgressTime,
                               timers, promise>>
    /\ UNCHANGED <<miscVars, allFiles, callback, job, uploadedBytes, isPaused, isCompleted,
                   cbs, srv, punched, lastSent, lastPrefix, now, lastProgress, fired>>

\* uploadToOneDrive returns to the loop that called it (its frame is gone,
\* whatever u.uploaded had reached): the record is pushed;
\* normal mode (part_000:272-279, 294-305) goes on to the next file or returns;
\* sequential mode (part_000:588-602) deletes the downloaded items and goes
\* on to the next entry
UploadReturns(u) ==
    LET records == Append(uploadedFiles, u.name)
    IN  IF job.script = "normal"
        THEN /\ IF main.start + 1 < Len(allFiles)
                THEN /\ uploadedFiles' = records
                     /\ main' = [main EXCEPT !.start = @ + 1]
                     /\ up' = uploadToOneDrive(allFiles[main.start + 2])
                     /\ UNCHANGED outcome
                ELSE /\ Returns(records)
                     /\ up' = NoUpload
             /\ UNCHANGED <<dir, engine, lastProgressTime, timers, promise>>
        ELSE /\ up' = NoUpload
             /\ SeqNext(main.start + 1, records, DeleteUploaded(dir))

\* part_000:619-624: the direct PUT answers; uploadToOneDrive returns
UploadDirectOk ==
    /\ job.script \in {"normal", "sequential"} /\ Running
    /\ main.pc = "uploading" /\ up.pc = "direct"
    /\ UploadReturns([up EXCEPT !.uploaded = up.fileSize])
    /\ UNCHANGED <<miscVars, allFiles, callback, job, uploadedBytes, isPaused, isCompleted,
                   cbs, srv, punched, lastSent, lastPrefix, now, lastProgress, fired>>

\* part_000:627-632: the session is created; the loop dispatches the first chunk
UploadSessionOk ==
    /\ job.script \in {"normal", "sequential"} /\ Running
    /\ main.pc = "uploading" /\ up.pc = "session"
    /\ up' = uploadChunk(up, 0, ChunkEnd(0, up.fileSize))
    /\ UNCHANGED <<miscVars, dir, allFiles, uploadedFiles, callback, streamVars, supVars>>

\* part_000:630-637: a chunk PUT answers; uploaded = end; the loop dispatches
\* the next chunk, or uploadToOneDrive returns
UploadChunkOk ==
    /\ job.script \in {"normal", "sequential"} /\ Running
    /\ main.pc = "uploading" /\ up.pc = "chunk"
    /\ LET end == up.requests[Len(up.requests)].end
       IN  IF MoreToUpload(end, up.fileSize)
           THEN /\ up' = uploadChunk([up EXCEPT !.uploaded = end], end,
                                     ChunkEnd(end, up.fileSize))
                /\ UNCHANGED <<dir, uploadedFiles, main, outcome, engine, lastProgressTime,
                               timers, promise>>
           ELSE UploadReturns([up EXCEPT !.uploaded = end])
    /\ UNCHANGED <<miscVars, allFiles, callback, job, uploadedBytes, isPaused, isCompleted,
                   cbs, srv, punched, lastSent, lastPrefix, now, lastProgress, fired>>

\* part_000:619, 627, 632 and 713: a request of uploadToOneDrive rejects; the
\* error reaches main().catch
UploadFails ==
    /\ job.script \in {"normal", "sequential"} /\ Running
    /\ main.pc = "uploading" /\ up.pc \in {"direct", "session", "chunk"}
    /\ up' = NoUpload
    /\ Throws("UploadFailed")
    /\ UNCHANGED <<miscVars, dir, allFiles, uploadedFiles, callback, job, engine,
                   uploadedBytes, isPaused, isCompleted, cbs, srv, punched, lastSent,
                   lastPrefix, now, lastProgressTime, lastProgress, timers, promise, fired>>

\* ======= part_000: main after the mode's function has returned
NoCallback == [url |-> FALSE, posts |-> <<>>]

\* part_000:97-109: status 'completed' and files, the list the mode's function
\* returned (streamingDownloadAndUpload returns one record, part_000:423-429)
CompletedPost ==
    [status |-> "completed",
     files |-> IF job.script = "cli" THEN <<1>> ELSE uploadedFiles]

\* part_000:95-116: with a callback URL the 'completed' record is posted (a
\* failed POST is caught and logged); 'All done!'
MainCompleted ==
    /\ job.script \in {"normal", "sequential", "cli"}
    /\ main.pc = "done"
    /\ main' = [main EXCEPT !.pc = "exit"]
    /\ callback' = IF callback.url
                   THEN [callback EXCEPT !.posts = Append(@, CompletedPost)]
                   ELSE callback
    /\ UNCHANGED <<miscVars, dir, allFiles, uploadedFiles, up, job, engine, uploadedBytes,
                   isPaused, isCompleted, cbs, srv, punched, lastSent, lastPrefix, supVars>>

\* part_000:183-200 (normal) and 472-522 (sequential, file 0): the child runs,
\* maxTimer and stallChecker are set, the promise is pending
InitSupRun ==
    /\ \E s \in {"normal", "sequential"}, m \in {STALL_TIMEOUT, MaxTimeBudget},
          c \in 1..MaxFileCount, url \in BOOLEAN :
        /\ s = "sequential" => c > 1
        /\ s = "normal" => c = 1    \* normalDownloadAndUpload is not given fileCount
        /\ callback = [NoCallback EXCEPT !.url = url]
        /\ job = [NoJob EXCEPT !.script = s, !.totalSize = 1, !.pieceLength = 1,
                               !.maxTime = m, !.fileCount = c]
        /\ timers = [pollLoop |-> FALSE, stallChecker |-> TRUE, maxTimer |-> TRUE,
                     stallDue |-> 1,
                     maxDue |-> IF s = "normal" THEN m ELSE PerFileTime(m, c),
                     setAt |-> 0]
    /\ engine = [proc |-> "running", status |-> "active", bits |-> {}, code |-> 0]
    /\ uploadedBytes = 0 /\ isPaused = FALSE /\ isCompleted = FALSE
    /\ cbs = NoCallbacks
    /\ main = [pc |-> "wait", start |-> 0, chunkEnd |-> 0]
    /\ srv = 0 /\ punched = {} /\ lastPrefix = 0
    /\ lastSent = [start |-> 0, chunkEnd |-> 0, seq |-> 0]
    /\ now = 0 /\ lastProgressTime = 0 /\ lastProgress = 0
    /\ promise = "pending" /\ outcome = "none"
    /\ fired = NothingFired
    /\ dir = <<TorrentFile>>    \* saved by fetchMetadata (--bt-save-metadata)
    /\ allFiles = <<>> /\ uploadedFiles = <<>> /\ up = NoUpload

\* ======= part_000: createProgressReporter (time in units of 5 s)
RepIdle == [configured |-> FALSE, clock |-> 0, lastReport |-> 0, pending |-> 0,
            prevEmit |-> -1, lastEmit |-> -1, settled |-> "none"]

\* the interval test switched off: every call emits
TooSoon_Off(t, lastReport) == FALSE

\* part_000:684: if (now - lastReport < minInterval) return
TooSoon(t, lastReport) == t - lastReport < minInterval

\* the catch block rethrowing: the reporter's promise rejects with the POST
ReporterSettles_Rethrow(postOk) == IF postOk THEN "fulfilled" ELSE "rejected"

\* part_000:687-691: try { await axios.post(...) } catch (e) { } : the async
\* function's promise is fulfilled whether the POST succeeded or not
ReporterSettles(postOk) == "fulfilled"

\* part_000:678-680: the reporter is created; Date.now() is far from 0
InitReporter ==
    \E c \in BOOLEAN : rep = [RepIdle EXCEPT !.configured = c, !.clock = StartClock]

\* the reporter's clock moves on
RepTick ==
    /\ rep.clock > 0 /\ rep.clock < StartClock + MaxRepClock
    /\ rep' = [rep EXCEPT !.clock = @ + 1]
    /\ UNCHANGED <<sel, gate, meta, fileVars, streamVars, supVars>>

\* part_000:681-688, reportProgress(data) up to its await: nothing without
\* progressUrl or taskId, nothing inside the interval, otherwise the POST is sent
RepCall ==
    /\ rep.clock > 0 /\ Running
    /\ IF ~rep.configured \/ TooSoon(rep.clock, rep.lastReport)
       THEN UNCHANGED rep
       ELSE rep' = [rep EXCEPT !.lastReport = rep.clock,
                               !.prevEmit = rep.lastEmit, !.lastEmit = rep.clock,
                               !.pending = @ + 1]
    /\ UNCHANGED <<sel, gate, meta, fileVars, streamVars, supVars>>

\* part_000:687-691: a POST answers, fails or times out; no caller awaits the
\* reporter, so a rejection of its promise would end the process
RepPostDone ==
    /\ rep.pending > 0 /\ Running
    /\ \E postOk \in BOOLEAN :
        LET settled == ReporterSettles(postOk)
        IN  /\ rep' = [rep EXCEPT !.pending = @ - 1, !.settled = settled]
            /\ IF settled = "rejected"
               THEN /\ main' = [pc |-> "failed", start |-> 0, chunkEnd |-> 0]
                    /\ outcome' = "Crashed"
                    /\ cbs' = NoCallbacks
               ELSE UNCHANGED <<main, outcome, cbs>>
    /\ UNCHANGED <<sel, gate, meta, fileVars, job, engine, uploadedBytes, isPaused, isCompleted, srv,
                   punched, lastSent, lastPrefix, now, lastProgressTime, lastProgress,
                   timers, promise, fired>>

\* ======= part_000: fetchMetadata (the metadata-only aria2c child)
NoMetadata == [kind |-> "none", totalSize |-> 0, fileCount |-> 0, listLen |-> 0]

\* child: none, running, killed, closed; promise: none, pending, resolved,
\* rejected; summary remembers the last 'N files' count that was parsed
MetaIdle == [child |-> "none", promise |-> "none", timer |-> FALSE,
             fileName |-> FALSE, totalSize |-> 0, fileCount |-> 1, listLen |-> 0,
             summary |-> 0, result |-> NoMetadata]

\* the sizes 'Total Length:' can carry, around the threshold
MetaSizes == {1, LARGE_FILE_THRESHOLD, LARGE_FILE_THRESHOLD + 1}

\* part_000:123-125, 166: the child is spawned, the 120 s timer is set
InitMetaRun ==
    meta = [MetaIdle EXCEPT !.child = "running", !.promise = "pending", !.timer = TRUE]

\* resolve(...) or reject(...): a promise settles once, later calls change nothing
Settled(m, how, result) ==
    IF m.promise = "pending" THEN [m EXCEPT !.promise = how, !.result = result] ELSE m

\* part_000:47-51 and 713: when the promise settles main goes on with the
\* metadata, or main().catch ends the process
MetaContinue ==
    IF meta.promise = "pending" /\ meta'.promise = "resolved"
    THEN /\ sel' = [totalSize |-> meta'.result.totalSize,
                    metaFileCount |-> meta'.result.fileCount,
                    fileCount |-> 0, mode |-> "none"]
         /\ UNCHANGED <<main, outcome>>
    ELSE IF meta.promise = "pending" /\ meta'.promise = "rejected"
    THEN /\ main' = [pc |-> "failed", start |-> 0, chunkEnd |-> 0]
         /\ outcome' = "MetadataFailed"
         /\ UNCHANGED sel
    ELSE UNCHANGED <<sel, main, outcome>>

\* the listing never taking the place of the summary count
ListingCount_Ignore(fileCount, listLen) == fileCount

\* part_000:155: if (fileList.length > 0) fileCount = fileList.length
ListingCount(fileCount, listLen) == IF listLen > 0 THEN listLen ELSE fileCount

\* part_000:127-137, stdout of the child: Name, Total Length and 'N files'
\* are taken when they match
MetaStdout ==
    /\ meta.child \in {"running", "killed"} /\ Running
    /\ \E nameMatch \in BOOLEAN, size \in {0} \cup MetaSizes, files \in 0..MaxFileCount :
        meta' = [meta EXCEPT
                    !.fileName = @ \/ nameMatch,
                    !.totalSize = IF size > 0 THEN size ELSE @,
                    !.fileCount = IF files > 0 THEN files ELSE @,
                    !.summary = IF files > 0 THEN files ELSE @]
    /\ UNCHANGED <<sel, gate, rep, fileVars, streamVars, supVars>>

\* part_000:166, the 120 s timer (never cleared): kill, and resolve with the
\* fixed placeholder
MetaTimeout ==
    /\ meta.timer /\ Running
    /\ meta' = Settled([meta EXCEPT !.timer = FALSE,
                                    !.child = IF @ = "running" THEN "killed" ELSE @],
                       "resolved",
                       [kind |-> "placeholder", totalSize |-> PLACEHOLDER_SIZE,
                        fileCount |-> 1, listLen |-> 0])
    /\ MetaContinue
    /\ UNCHANGED <<gate, rep, fileVars, job, engine, uploadedBytes, isPaused, isCompleted, cbs, srv,
                   punched, lastSent, lastPrefix, now, lastProgressTime, lastProgress,
                   timers, promise, fired>>

\* part_000:141-164, aria2 'close': the saved .torrent is listed with
\* --show-files when there is one (the listing may fail), then the promise is
\* resolved with what was parsed, resolved with a placeholder, or rejected
MetaClose ==
    /\ meta.child \in {"running", "killed"} /\ Running
    /\ \E torrentSaved \in BOOLEAN, showFilesOk \in BOOLEAN, entries \in 0..MaxFileCount :
        /\ (~torrentSaved \/ ~showFilesOk) => entries = 0
        /\ ~torrentSaved => showFilesOk
        /\ LET fileCount == ListingCount(meta.fileCount, entries)
               m == [meta EXCEPT !.child = "closed", !.listLen = entries,
                                 !.fileCount = fileCount]
           IN  meta' =
                 IF meta.fileName /\ meta.totalSize > 0
                 THEN Settled(m, "resolved",
                              [kind |-> "parsed", totalSize |-> meta.totalSize,
                               fileCount |-> fileCount, listLen |-> entries])
                 ELSE IF torrentSaved
                 THEN Settled(m, "resolved",
                              [kind |-> "placeholder", totalSize |-> PLACEHOLDER_SIZE,
                               fileCount |-> fileCount, listLen |-> entries])
                 ELSE Settled(m, "rejected", NoMetadata)
    /\ MetaContinue
    /\ UNCHANGED <<gate, rep, fileVars, job, engine, uploadedBytes, isPaused, isCompleted, cbs, srv,
                   punched, lastSent, lastPrefix, now, lastProgressTime, lastProgress,
                   timers, promise, fired>>

\* ======= the start-up of the two streaming scripts (part_000:313-347,
\* ======= stream_upload.js:76-130)
\* main has not spawned the engine yet; the torrent's size and piece length
\* are what the engine will report
InitStartUp ==
    /\ \/ \E t \in (LARGE_FILE_THRESHOLD + 1)..MaxTotal, p \in 1..MaxPieceLength,
             m \in {STALL_TIMEOUT, MaxTimeBudget} :
            job = [NoJob EXCEPT !.script = "cli", !.totalSize = t, !.pieceLength = p,
                                !.maxTime = m, !.fileCount = 1]
       \/ \E t \in (CHUNK_SIZE + 1)..MaxRpcTotal, p \in 1..MaxPieceLength :
            job = [NoJob EXCEPT !.script = "rpc", !.totalSize = t, !.pieceLength = p,
                                !.useSequential = t > RPC_LARGE_FILE_THRESHOLD]
    /\ engine = [proc |-> "none", status |-> "none", bits |-> {}, code |-> 0]
    /\ uploadedBytes = 0 /\ isPaused = FALSE /\ isCompleted = FALSE
    /\ cbs = NoCallbacks
    /\ main = [pc |-> "start", start |-> 0, chunkEnd |-> 0]
    /\ srv = 0 /\ punched = {} /\ lastPrefix = 0
    /\ lastSent = [start |-> 0, chunkEnd |-> 0, seq |-> 0]

\* part_000:313-332, stream_upload.js:76-82: spawn('aria2c', args), the
\* handlers of its output, sleep(5000); main.start counts the probes
StartSpawn ==
    /\ job.script \in {"cli", "rpc"}
    /\ main.pc = "start"
    /\ engine' = [proc |-> "running", status |-> "active", bits |-> {}, code |-> 0]
    /\ main' = [pc |-> "probe", start |-> 0, chunkEnd |-> 0]
    /\ UNCHANGED <<otherVars, supVars, job, uploadedBytes, isPaused, isCompleted, cbs, srv,
                   punched, lastSent, lastPrefix>>

\* part_000:335-345: the directory is read; with a file as its first item
\* createUploadSession is called, otherwise sleep(1000) and again, at most
\* 60 times (MaxProbes here), then 'File not found'
CliProbe ==
    /\ job.script = "cli" /\ main.pc = "probe"
    /\ \E isFile \in BOOLEAN :
        /\ isFile => engine.bits # {}    \* the file exists once a piece is written
        /\ IF isFile
           THEN main' = [main EXCEPT !.pc = "session"]
           ELSE IF main.start + 1 < MaxProbes
           THEN main' = [main EXCEPT !.start = @ + 1]
           ELSE main' = [main EXCEPT !.pc = "failed"]
        /\ outcome' = IF main'.pc = "failed" THEN "FileNotFound" ELSE outcome
    /\ UNCHANGED <<otherVars, job, engine, uploadedBytes, isPaused, isCompleted, cbs, srv,
                   punched, lastSent, lastPrefix, now, lastProgressTime, lastProgress,
                   timers, promise, fired>>

\* stream_upload.js:91-128: tellActive throws (RPC not ready), or answers
\* without a download, or with one; with a gid createUploadSession is called
\* after the loop, without one after 60 retries (MaxProbes here) the process
\* exits
RpcProbe ==
    /\ job.script = "rpc" /\ main.pc = "probe"
    /\ \E answer \in {"error", "empty", "active"} :
        /\ IF answer = "active"
           THEN main' = [main EXCEPT !.pc = "session"]
           ELSE IF main.start + 1 < MaxProbes
           THEN main' = [main EXCEPT !.start = @ + 1]
           ELSE main' = [main EXCEPT !.pc = "failed"]
        /\ outcome' = IF main'.pc = "failed" THEN "NoDownload" ELSE outcome
    /\ UNCHANGED <<otherVars, job, engine, uploadedBytes, isPaused, isCompleted, cbs, srv,
                   punched, lastSent, lastPrefix, now, lastProgressTime, lastProgress,
                   timers, promise, fired>>

\* part_000:345-395, stream_upload.js:128-192: the session is created; the
\* intervals are set and main waits for the download
StartSessionOk ==
    /\ job.script \in {"cli", "rpc"} /\ main.pc = "session"
    /\ main' = [pc |-> "wait", start |-> 0, chunkEnd |-> 0]
    /\ IF job.script = "cli"
       THEN /\ timers' = [pollLoop |-> TRUE, stallChecker |-> TRUE, maxTimer |-> TRUE,
                          stallDue |-> now + 1, maxDue |-> now + job.maxTime,
                          setAt |-> now]
            /\ promise' = "pending"
       ELSE UNCHANGED <<timers, promise>>
    /\ UNCHANGED <<otherVars, job, engine, uploadedBytes, isPaused, isCompleted, cbs, srv,
                   punched, lastSent, lastPrefix, now, lastProgressTime, lastProgress,
                   outcome, fired>>

\* part_000:345 and 713, stream_upload.js:128 and 304-307: createUploadSession
\* rejects; main().catch exits
StartSessionFails ==
    /\ job.script \in {"cli", "rpc"} /\ main.pc = "session"
    /\ main' = [main EXCEPT !.pc = "failed"]
    /\ outcome' = "SessionFailed"
    /\ UNCHANGED <<otherVars, job, engine, uploadedBytes, isPaused, isCompleted, cbs, srv,
                   punched, lastSent, lastPrefix, now, lastProgressTime, lastProgress,
                   timers, promise, fired>>

\* ======= part_000: the total size the chunk PUTs of streaming mode declare
\* part_000:361, the poll loop: uploadChunk(..., uploadedBytes, chunkEnd, totalSize)
PollTotal == job.totalSize

\* part_000:398-402, the final flush: finalSize = fs.statSync(actualFile).size
\* and uploadChunk(..., uploadedBytes, chunkEnd, finalSize)
FlushTotal == FileSize(engine.bits)

\* ======= part_000: main dispatches on the mode (83-93), and the listing
\* ======= sequentialDownloadAndUpload obtains when it was given none (437-470)
\* part_000:178-200, normalDownloadAndUpload is entered: the child is spawned,
\* maxTimer and stallChecker are set, the promise is pending
EnterNormal(maxTime) ==
    /\ job' = [NoJob EXCEPT !.script = "normal", !.totalSize = 1, !.pieceLength = 1,
                            !.maxTime = maxTime, !.fileCount = 1]
    /\ engine' = [proc |-> "running", status |-> "active", bits |-> {}, code |-> 0]
    /\ main' = [pc |-> "wait", start |-> 0, chunkEnd |-> 0]
    /\ timers' = [pollLoop |-> FALSE, stallChecker |-> TRUE, maxTimer |-> TRUE,
                  stallDue |-> now + 1, maxDue |-> now + maxTime, setAt |-> now]
    /\ lastProgressTime' = now
    /\ promise' = "pending"

\* part_000:472-522 with i = 0: the loop over a listing of fileCount entries
\* starts; an empty listing returns the empty result at once
EnterSeqLoop(maxTime, fileCount) ==
    /\ job' = [NoJob EXCEPT !.script = "sequential", !.totalSize = 1, !.pieceLength = 1,
                            !.maxTime = maxTime, !.fileCount = fileCount]
    /\ IF fileCount = 0
       THEN /\ Returns(<<>>)
            /\ UNCHANGED <<engine, timers, lastProgressTime, promise>>
       ELSE /\ engine' = [proc |-> "running", status |-> "active", bits |-> {}, code |-> 0]
            /\ main' = [pc |-> "wait", start |-> 0, chunkEnd |-> 0]
            /\ timers' = [pollLoop |-> FALSE, stallChecker |-> TRUE, maxTimer |-> TRUE,
                          stallDue |-> now + 1,
                          maxDue |-> now + PerFileTime(maxTime - now, fileCount),
                          setAt |-> now]
            /\ lastProgressTime' = now
            /\ promise' = "pending"
            /\ UNCHANGED <<uploadedFiles, outcome>>

\* part_000:87-93: main calls the function of the mode; sequential mode given
\* an empty fileList first spawns a metadata-only child (437-452)
MainDispatch ==
    /\ sel.mode \in {"normal", "streaming", "sequential"}
    /\ job.script = "none" /\ Running
    /\ \E maxTime \in {STALL_TIMEOUT, MaxTimeBudget} :
        IF sel.mode = "normal"
        THEN /\ EnterNormal(maxTime)
             /\ UNCHANGED <<uploadedFiles, outcome>>
        ELSE IF sel.mode = "streaming"
        THEN /\ job' = [NoJob EXCEPT !.script = "cli", !.totalSize = sel.totalSize,
                                     !.pieceLength = 1, !.maxTime = maxTime,
                                     !.fileCount = 1]
             /\ main' = [pc |-> "start", start |-> 0, chunkEnd |-> 0]
             /\ UNCHANGED <<engine, timers, lastProgressTime, promise, uploadedFiles,
                            outcome>>
        ELSE IF meta.result.listLen = 0
        THEN /\ job' = [NoJob EXCEPT !.script = "sequential", !.totalSize = 1,
                                     !.pieceLength = 1, !.maxTime = maxTime,
                                     !.fileCount = sel.fileCount]
             /\ main' = [pc |-> "listing", start |-> 0, chunkEnd |-> 0]
             /\ UNCHANGED <<engine, timers, lastProgressTime, promise, uploadedFiles,
                            outcome>>
        ELSE EnterSeqLoop(maxTime, sel.fileCount)
    /\ UNCHANGED <<miscVars, dir, allFiles, up, callback, uploadedBytes, isPaused,
                   isCompleted, cbs, srv, punched, lastSent, lastPrefix, now, lastProgress,
                   fired>>

\* part_000:446-470: the metadata-only child has closed or its 60 s timer has
\* killed it; without a .torrent in the directory 'No torrent file' is thrown;
\* the listing of aria2c --show-files replaces fileList and fileCount; when
\* execSync throws, normalDownloadAndUpload is called and its result returned
SeqGetFileList ==
    /\ job.script = "sequential" /\ main.pc = "listing"
    /\ \E torrentSaved \in BOOLEAN, showFilesOk \in BOOLEAN, entries \in 0..MaxFileCount :
        /\ ~showFilesOk => entries = 0
        /\ ~torrentSaved => ~showFilesOk
        /\ dir' = IF torrentSaved THEN <<TorrentFile>> ELSE <<>>
        /\ IF ~torrentSaved
           THEN /\ Throws("NoTorrentFile")
                /\ UNCHANGED <<job, engine, timers, lastProgressTime, promise, uploadedFiles>>
           ELSE IF showFilesOk
           THEN EnterSeqLoop(job.maxTime, entries)
           ELSE /\ EnterNormal(job.maxTime)
                /\ UNCHANGED <<uploadedFiles, outcome>>
    /\ UNCHANGED <<miscVars, allFiles, up, callback, uploadedBytes, isPaused, isCompleted,
                   cbs, srv, punched, lastSent, lastPrefix, now, lastProgress, fired>>

\* ------------------------------------------------------------ specifications
\* the reporter and fetchMetadata are not part of the run
OtherIdle == rep = RepIdle /\ meta = MetaIdle

\* no directory, no uploadToOneDrive call, no callback URL
FilesIdle ==
    /\ dir = <<>> /\ allFiles = <<>> /\ uploadedFiles = <<>>
    /\ up = NoUpload /\ callback = NoCallback

InitMode == InitSel /\ gate = GateIdle /\ StreamIdle /\ SupIdle /\ OtherIdle /\ FilesIdle
NextMode == MainSelectMode
SpecMode == InitMode /\ [][NextMode]_vars

InitGateSpec == InitGate /\ sel = SelIdle /\ StreamIdle /\ SupIdle /\ OtherIdle
                   /\ FilesIdle
NextGate == GateApply
SpecGate == InitGateSpec /\ [][NextGate]_vars

InitRpc == InitRpcRun /\ SupIdle /\ sel = SelIdle /\ gate = GateIdle /\ OtherIdle
              /\ FilesIdle
NextRpc ==
    \/ EngineCompletePiece \/ RpcEngineClose
    \/ RpcPollFire \/ RpcPollStatus \/ RpcPollPauseDone
    \/ RpcPollPutOk \/ RpcPollPutFail \/ RpcPollUnpauseDone
    \/ RpcMainWake \/ RpcMainPutOk \/ RpcMainPutFail
SpecRpc == InitRpc /\ [][NextRpc]_vars

\* the interval keeps firing, and an RPC or a PUT that is awaited settles
FairRpc ==
    /\ WF_vars(RpcPollFire) /\ WF_vars(RpcPollStatus)
    /\ WF_vars(RpcPollPauseDone) /\ WF_vars(RpcPollUnpauseDone)
    /\ WF_vars(RpcPollPutOk \/ RpcPollPutFail)
    /\ WF_vars(RpcMainWake) /\ WF_vars(RpcMainPutOk \/ RpcMainPutFail)
SpecRpcFair == InitRpc /\ [][NextRpc]_vars /\ FairRpc

InitCli == InitCliRun /\ sel = SelIdle /\ gate = GateIdle /\ OtherIdle /\ FilesIdle
NextCli ==
    \/ EngineCompletePiece \/ EngineExit \/ Tick
    \/ CliPollFire \/ CliPollPutOk \/ CliPollPutFail
    \/ CliStdout \/ CliStallChecker \/ CliMaxTimer \/ CliClose
    \/ CliMainPutOk \/ CliMainPutFail \/ MainCompleted
SpecCli == InitCli /\ [][NextCli]_vars

InitStreaming == InitRpc \/ InitCli
NextStreaming == NextRpc \/ NextCli
SpecStreaming == InitStreaming /\ [][NextStreaming]_vars

InitSup == InitSupRun /\ sel = SelIdle /\ gate = GateIdle /\ OtherIdle
NextSup ==
    \/ EngineCompletePiece \/ EngineExit \/ Tick
    \/ SupStdout \/ SupStallChecker \/ SupMaxTimer \/ SupClose
    \/ BulkInspect \/ SeqInspect
    \/ UploadDirectOk \/ UploadSessionOk \/ UploadChunkOk \/ UploadFails
    \/ MainCompleted
SpecSup == InitSup /\ [][NextSup]_vars

InitSupervised == InitCli \/ InitSup
NextSupervised == NextCli \/ NextSup
SpecSupervised == InitSupervised /\ [][NextSupervised]_vars

InitRep == InitReporter /\ meta = MetaIdle /\ sel = SelIdle /\ gate = GateIdle
              /\ StreamIdle /\ SupIdle /\ FilesIdle
NextRep == RepTick \/ RepCall \/ RepPostDone
SpecReporter == InitRep /\ [][NextRep]_vars

\* part_000:33: progressUrl is derived from callbackUrl; with CALLBACK_URL set
\* the reporter is configured or not as TASK_ID is set or not
InitReported == InitSupRun /\ InitReporter /\ meta = MetaIdle
                   /\ sel = SelIdle /\ gate = GateIdle
                   /\ callback.url
                   /\ job.fileCount <= MaxReportedFiles
NextReported == NextSup \/ NextRep
SpecReported == InitReported /\ [][NextReported]_vars

InitMeta == InitMetaRun /\ rep = RepIdle /\ sel = SelIdle /\ gate = GateIdle
               /\ StreamIdle /\ SupIdle /\ FilesIdle
NextMeta == MetaStdout \/ MetaTimeout \/ MetaClose \/ MainSelectMode
SpecMeta == InitMeta /\ [][NextMeta]_vars

InitStarting == InitStartUp /\ SupIdle /\ sel = SelIdle /\ gate = GateIdle /\ OtherIdle
                   /\ FilesIdle
NextStarting ==
    \/ StartSpawn \/ EngineCompletePiece \/ CliProbe \/ RpcProbe
    \/ StartSessionOk \/ StartSessionFails
SpecStarting == InitStarting /\ [][NextStarting]_vars

InitDispatch == InitMeta
NextDispatch == NextMeta \/ MainDispatch \/ SeqGetFileList
SpecDispatch == InitDispatch /\ [][NextDispatch]_vars

\* ======================================================================= C1
\* C1: the mode computed by main from (totalSize, fileCount), fileCount >= 1,
\* is exactly one of normal / streaming / sequential: normal iff
\* totalSize <= T, streaming iff totalSize > T and fileCount = 1, sequential
\* iff totalSize > T and fileCount > 1; totalSize = T selects normal.
C1_ModeTable ==
    sel.mode \notin {"none", "idle"} =>
        /\ sel.fileCount >= 1
        /\ sel.mode \in {"normal", "streaming", "sequential"}
        /\ (sel.mode = "normal") <=> (sel.totalSize <= LARGE_FILE_THRESHOLD)
        /\ (sel.mode = "streaming") <=>
               (sel.totalSize > LARGE_FILE_THRESHOLD /\ sel.fileCount = 1)
        /\ (sel.mode = "sequential") <=>
               (sel.totalSize > LARGE_FILE_THRESHOLD /\ sel.fileCount > 1)

C1_Witness ==
    /\ sel.mode = "normal"
    /\ sel.totalSize = LARGE_FILE_THRESHOLD
    /\ sel.fileCount > 1

\* ======================================================================= C2
\* bit i (0-based, most significant bit of the first character first) of a
\* hex bitfield, by arithmetic on the character values
BitOf(hex, i) == (hex[(i \div 4) + 1] \div (2 ^ (3 - (i % 4)))) % 2

\* the number of leading set bits before the first 0 bit
LeadingRun(hex) ==
    CHOOSE k \in 0..(4 * Len(hex)) :
        /\ \A i \in 0..(k - 1) : BitOf(hex, i) = 1
        /\ k < 4 * Len(hex) => BitOf(hex, k) = 0

\* C2: getUploadablePrefix returns min(k * pieceLength, totalSize), k the
\* number of leading set bits before the first 0 bit; set bits after the
\* first 0 never increase the result; an empty bitfield gives 0.
C2_PrefixIsLeadingRun ==
    gate.result >= 0 =>
        /\ gate.result = Min(LeadingRun(gate.hexBitfield) * gate.pieceLength, gate.totalSize)
        /\ gate.hexBitfield = <<>> => gate.result = 0

\* bitmap 110100.. (hex D0) with piece size 1 gives 2
C2_Witness ==
    /\ gate.hexBitfield = <<13, 0>>
    /\ gate.pieceLength = 1
    /\ gate.totalSize >= 4
    /\ gate.result = 2

\* ======================================================================= C3
\* every byte below offset e lies in a piece the engine has completed
Covered(e) == \A b \in 0..(e - 1) : (b \div job.pieceLength) \in engine.bits

\* C3: while the engine's bitmap only gains bits, the prefix the gate returns
\* never decreases from one poll to the next, and every byte below a prefix
\* it returned belongs to a piece whose bit is set.
C3_GateMonotoneContiguous ==
    /\ [](job.script = "rpc" =>
            /\ Covered(lastPrefix)
            /\ \A r \in DOMAIN cbs : Covered(r.uploadableEnd))
    /\ [][lastPrefix' >= lastPrefix]_vars

\* a poll has authorized a proper prefix while a later piece, beyond the gap, is complete
C3_Witness ==
    /\ job.script = "rpc"
    /\ lastPrefix > 0 /\ lastPrefix < job.totalSize
    /\ ~Covered(lastPrefix + 1)
    /\ \E p \in engine.bits : p * job.pieceLength > lastPrefix

\* ======================================================================= C5
\* C5: in the RPC poll loop every chunk in flight ends at or below the prefix
\* its tick computed, the ceil(end / pieceLength) leading pieces are complete,
\* and while only the poll loop moves the cursor the cursor is within the
\* gated prefix.
C5_ChunkWithinGate ==
    job.script = "rpc" =>
        /\ \A r \in PollPuts :
            /\ r.chunkEnd <= r.uploadableEnd
            /\ r.chunkEnd - r.start = CHUNK_SIZE
            /\ \A i \in 0..(NumPieces(r.chunkEnd, job.pieceLength) - 1) : i \in engine.bits
        /\ main.pc = "wait" => uploadedBytes <= lastPrefix

\* a second chunk is in flight while the download is still incomplete
C5_Witness ==
    /\ job.script = "rpc"
    /\ main.pc = "wait"
    /\ lastPrefix < job.totalSize
    /\ \E r \in PollPuts : r.start > 0 /\ r.chunkEnd = lastPrefix

C6_FileSizeIsPrefix ==
    job.script = "cli" =>
        /\ \A r \in PollPuts : Covered(r.chunkEnd)
        /\ main.pc = "wait" => Covered(uploadedBytes)

\* ======================================================================= C7
\* C7: at every moment at most one task is inside the read-cursor / PUT /
\* write-cursor section of a streaming run (poll callbacks and final flush).
C7_SingleWriter == InFlightPuts <= 1

\* ======================================================================= C8
\* C8: the PUTs of a session are ordered and contiguous: the first range
\* starts at 0, each later range starts where the range dispatched before it
\* ended, no range is dispatched twice, and no PUT is dispatched while
\* another PUT of the session is in flight.
C8_OrderedContiguous ==
    [][lastSent'.seq # lastSent.seq =>
          /\ lastSent'.start = lastSent.chunkEnd
          /\ lastSent'.chunkEnd > lastSent'.start
          /\ InFlightPuts' <= 1]_vars

\* ======================================================================= C9
ShortRange(s) == s.chunkEnd > s.start /\ s.chunkEnd - s.start < CHUNK_SIZE

RunEnded == promise \in {"resolved", "rejected"}

\* C10: in every supervised download, once the stall checker has found the
\* stall budget exceeded the engine is killed and the run ends Stalled (not
\* TimedOut, Failed or success), also when engine output arrives between the
\* kill and the close event.  (A run the absolute timer ended is left aside.)
C10_StallEndsStalled ==
    fired.stall =>
        /\ engine.proc # "running"
        /\ (RunEnded /\ ~fired.max) => (promise = "rejected" /\ outcome = "Stalled")

\* ====================================================================== C11
\* C11: when a supervised download has reached a terminal state (Stalled,
\* TimedOut, Failed, Complete) every timer of the run (absolute timer, stall
\* checker, poll loop) is cancelled, and the kill-and-fail branch of the
\* timer handlers has run at most once in the run.
C11_TimersCancelled ==
    /\ RunEnded => (~timers.maxTimer /\ ~timers.stallChecker /\ ~timers.pollLoop)
    /\ ~(fired.stall /\ fired.max)

\* ====================================================================== C12
\* the run has failed: the promise was rejected or the final flush threw, or
\* the stall checker has found the stall and killed the engine
RunFailed == main.pc = "failed" \/ fired.stall

\* C12: once a streaming run has failed (stall, timeout, explicit failure) no
\* poll callback of the run dispatches a PUT or changes uploadedBytes: a
\* callback that was awaiting a PUT at that moment does not go on.
C12_NoUploadAfterFailure ==
    [][(job.script = "cli" /\ RunFailed /\ cbs' # cbs) =>
          (uploadedBytes' = uploadedBytes /\ lastSent' = lastSent)]_vars

\* ====================================================================== C13
\* C13: in every mode the time budget maxTime is enforced whatever the
\* progress: no engine process of the run is running later than maxTime after
\* the download began (in Sequential mode over all the per-file downloads
\* together), and a run the absolute timer ends is TimedOut.
C13_BudgetEnforced ==
    job.script \in {"normal", "cli", "sequential"} =>
        /\ engine.proc = "running" => now <= job.maxTime
        /\ fired.max => outcome = "TimedOut"

\* ====================================================================== C14
\* C14: in every mode, when the engine has exited with a non-zero code and
\* neither the stall checker nor the absolute timer killed it, the run ends
\* as Failed: no upload follows (the final flush of streaming included) and
\* no completed result is produced.
C14_NonZeroExitFails ==
    (/\ job.script \in {"normal", "cli", "sequential"}
     /\ engine.proc = "closed" /\ engine.code # 0
     /\ ~fired.stall /\ ~fired.max)
        => (promise = "rejected" /\ outcome = "Failed" /\ main.pc = "failed")

\* ====================================================================== C15
UnpausesInFlight == BagCount(cbs, {r \in DOMAIN cbs : r.pc = "unpause"})

\* C15: in the RPC loop, after a pause was issued no unpause command is
\* issued on a free-space sample that does not exceed 2 * MIN_FREE_SPACE
\* (samples above MIN_FREE_SPACE do not resume), and an unpause is issued
\* only while the paused flag is set.
C15_Hysteresis ==
    /\ [](\A r \in DOMAIN cbs :
            r.pc = "unpause" => r.newFreeSpace > 2 * MIN_FREE_SPACE)
    /\ [][UnpausesInFlight' > UnpausesInFlight => isPaused]_vars
    /\ [][(isPaused /\ ~isPaused') => UnpausesInFlight > 0]_vars

\* an unpause is on its way to the paused engine
C15_Witness ==
    /\ isPaused /\ engine.status = "paused"
    /\ UnpausesInFlight > 0

\* ====================================================================== C16
\* C16: any two progress POSTs a reporter emits are at least minInterval
\* apart, for every sequence of calls, calls made while an earlier POST is
\* still pending included; a call inside the interval emits nothing.
C16_RateLimit ==
    /\ [](rep.prevEmit # -1 => rep.lastEmit - rep.prevEmit >= minInterval)
    /\ [][(rep.lastEmit # -1 /\ rep.clock - rep.lastEmit < minInterval) =>
            (rep'.lastEmit = rep.lastEmit /\ rep'.pending <= rep.pending)]_vars

\* a second POST was emitted while the first one was still pending
C16_Witness ==
    /\ rep.prevEmit # -1 /\ rep.pending >= 2
    /\ rep.lastEmit - rep.prevEmit = minInterval

\* ====================================================================== C17
\* C17: a progress POST that fails or is slow never changes the pipeline:
\* the reporter's promise never rejects, and no step of the reporter changes
\* the supervisor's state, the upload cursor or the outcome of the run.
C17_ReporterHarmless ==
    /\ [](rep.settled # "rejected")
    /\ [][rep' # rep => UNCHANGED <<streamVars, supVars>>]_vars

\* a POST has been answered while the supervised download was under way and
\* another one is still pending
C17_Witness ==
    /\ rep.settled = "fulfilled" /\ rep.pending > 0
    /\ promise = "pending" /\ engine.proc = "running"

\* ====================================================================== C18
\* C18: fetchMetadata never fails the task: for every outcome of the
\* metadata-only run (timeout, exit without name or size, exit without a
\* saved .torrent file) its promise resolves, with parsed metadata or with a
\* placeholder, and never rejects.
C18_MetadataNeverRejects ==
    /\ meta.promise # "rejected"
    /\ meta.promise = "resolved" => meta.result.kind \in {"parsed", "placeholder"}

\* ====================================================================== C19
\* C19: a placeholder that fetchMetadata synthesizes has file count 1 and a
\* size for which the mode selector does not choose Bulk ('normal').
C19_PlaceholderIsSafe ==
    (meta.promise = "resolved" /\ meta.result.kind = "placeholder") =>
        /\ meta.result.fileCount = 1
        /\ SelectMode(meta.result.totalSize, FileCountOrOne(meta.result.fileCount)) # "normal"
        /\ sel.mode # "normal"

\* ====================================================================== C20
\* C20: when fetchMetadata returns a non-empty explicit listing, the returned
\* fileCount is the number of its entries, whatever the summary count was,
\* and main works with that count.
C20_ListingWins ==
    (meta.promise = "resolved" /\ meta.result.listLen > 0) =>
        /\ meta.result.fileCount = meta.result.listLen
        /\ sel.mode \in {"normal", "sequential", "streaming"} =>
                sel.fileCount = meta.result.listLen

\* a summary count and a listing of another length were both present, and
\* main has chosen the mode
C20_Witness ==
    /\ meta.promise = "resolved" /\ meta.result.listLen > 0
    /\ meta.summary > 0 /\ meta.summary # meta.result.listLen
    /\ sel.mode \in {"normal", "sequential", "streaming"}

\* ====================================================================== C21
\* the run has returned its records to main
SeqCompleted == job.script = "sequential" /\ main.pc \in {"done", "exit"}

\* C21: a Sequential run over a listing of N entries that completes
\* successfully has gone through N download, upload, delete cycles, one per
\* entry in listing order, and returns exactly N records.
C21_OneCyclePerEntry ==
    SeqCompleted => uploadedFiles = [k \in 1..job.fileCount |-> SelectFile(k - 1)]

\* ====================================================================== C22
\* the entries of the listing whose bytes are in the download directory
RECURSIVE Owners(_)
Owners(entries) ==
    IF entries = <<>> THEN {}
    ELSE LET f == Head(entries)
         IN  (IF f.kind \in {"file", "dir"} /\ f.entry > 0 THEN {f.entry} ELSE {})
             \cup Owners(f.children) \cup Owners(Tail(entries))

\* C22: in Sequential mode the payload in the download directory belongs to
\* at most one entry of the listing at every moment, the entry being handled;
\* while the child of an entry runs nothing of an earlier entry is there,
\* whether that entry was uploaded or skipped.
C22_OneEntryOnDisk ==
    job.script = "sequential" =>
        /\ Cardinality(Owners(dir)) <= 1
        /\ Running => Owners(dir) \subseteq {SelectFile(main.start)}
        /\ (engine.proc = "running" /\ main.start > 0) => Owners(dir) = {}

\* the third child has ended with its payload on disk, after the first entry
\* was skipped and the second was uploaded and deleted
C22_Witness ==
    /\ job.script = "sequential" /\ job.fileCount = MaxFileCount
    /\ main.start = 2 /\ engine.proc = "exited" /\ engine.code = 0
    /\ Owners(dir) = {SelectFile(2)}
    /\ uploadedFiles = <<SelectFile(1)>>

\* ====================================================================== C23
\* the run has ended with a run-fatal error: main().catch has run
RunFatal ==
    /\ main.pc = "failed"
    /\ outcome \in {"Stalled", "TimedOut", "Failed", "NoFiles", "UploadFailed"}

\* C23: when a run ends with a run-fatal error and a callback URL is
\* configured, a failure record has been posted to the completion callback
\* by the time the process terminates.
C23_FailureReported ==
    (RunFatal /\ callback.url) => \E i \in DOMAIN callback.posts : callback.posts[i].status = "failed"

\* ====================================================================== C24
\* a chunk PUT of a poll callback rejects: the callback ends and nothing it
\* would have written after the PUT is written
PollPutRejected ==
    \E r \in PollPuts :
        /\ cbs' = BagRemove(cbs, r)
        /\ uploadedBytes' = uploadedBytes /\ srv' = srv /\ lastSent' = lastSent

\* C24: a failed chunk PUT is fatal for the run in every upload path, the
\* streaming poll loop included: when a chunk PUT fails the run ends in
\* failure, so no further chunk is dispatched and the range is not retried
\* on a later poll tick.
C24_PutFailureIsFatal ==
    [][PollPutRejected => main'.pc = "failed"]_vars

\* ====================================================================== C25
\* the download supervisor has reached Complete: 'close' with exit code 0
\* has resolved the promise, and no kill branch has run
SupervisorComplete ==
    /\ promise = "resolved" /\ engine.proc = "closed" /\ engine.code = 0
    /\ ~fired.stall /\ ~fired.max

\* C25: in Bulk mode no upload request (session creation, chunk PUT, direct
\* PUT) is in flight and no record exists before the download supervisor has
\* reached Complete; a run whose supervisor ended Stalled, TimedOut or Failed
\* has issued no upload request.
C25_UploadAfterComplete ==
    job.script = "normal" =>
        /\ (up # NoUpload \/ uploadedFiles # <<>> \/ allFiles # <<>>) => SupervisorComplete
        /\ promise = "rejected" => (up = NoUpload /\ uploadedFiles = <<>>)

\* the second chunk of a file is in flight after a complete download
C25_Witness ==
    /\ job.script = "normal" /\ SupervisorComplete
    /\ up.pc = "chunk" /\ Len(up.requests) = 3

\* ====================================================================== C26
\* the names of the files a directory listing holds, control files left
\* out, directories entered where they stand
RECURSIVE Produced(_)
Produced(entries) ==
    IF entries = <<>> THEN <<>>
    ELSE LET f == entries[Len(entries)]
             before == Produced(SubSeq(entries, 1, Len(entries) - 1))
         IN  IF f.kind = "dir" THEN before \o Produced(f.children)
             ELSE IF f.kind = "file" THEN Append(before, f.name)
             ELSE before

ChunkRequests == SubSeq(up.requests, 2, Len(up.requests))

\* ceil(a / b)
CeilDiv(a, b) == (a + b - 1) \div b

\* C27: for every fileSize above the small-file limit uploadToOneDrive opens
\* one session and then dispatches chunk PUTs whose ranges [start, end) follow
\* one another from 0 in increasing order, each of CHUNK_SIZE bytes except
\* possibly the last, each declaring start-(end-1)/fileSize; it returns when
\* ceil(fileSize / CHUNK_SIZE) ranges have covered [0, fileSize) exactly once.
C27_ChunksPartitionFile ==
    /\ [](up.fileSize > SMALL_FILE_LIMIT =>
            /\ up.requests[1] = Request("session", 0, up.fileSize, up.fileSize)
            /\ Len(ChunkRequests) <= CeilDiv(up.fileSize, CHUNK_SIZE)
            /\ \A k \in DOMAIN ChunkRequests :
                /\ ChunkRequests[k].kind = "chunk"
                /\ ChunkRequests[k].start = (k - 1) * CHUNK_SIZE
                /\ ChunkRequests[k].end = Min(k * CHUNK_SIZE, up.fileSize)
                /\ ChunkRequests[k].total = up.fileSize
                /\ ChunkRequests[k].end > ChunkRequests[k].start
            /\ up.uploaded = IF Len(ChunkRequests) <= 1 THEN 0
                             ELSE ChunkRequests[Len(ChunkRequests) - 1].end)
    /\ [][(up.pc = "chunk" /\ up'.pc # "chunk" /\ main'.pc # "failed") =>
            /\ Len(ChunkRequests) = CeilDiv(up.fileSize, CHUNK_SIZE)
            /\ ChunkRequests[Len(ChunkRequests)].end = up.fileSize]_vars

\* the third and last range of a file of two chunks and a half is in flight
C27_Witness ==
    /\ up.pc = "chunk" /\ up.fileSize = 2 * CHUNK_SIZE + 1
    /\ Len(ChunkRequests) = 3
    /\ ChunkRequests[3] = Request("chunk", 2 * CHUNK_SIZE, up.fileSize, up.fileSize)

\* ====================================================================== C28
\* C28: uploadToOneDrive sends the direct small-object PUT (one request, no
\* upload session) if and only if fileSize is at most the small-file limit,
\* a file of exactly the limit and an empty file included; for every larger
\* size it opens a session and sends chunks, and never the direct PUT.
C28_DirectIffSmall ==
    up # NoUpload =>
        IF up.fileSize <= SMALL_FILE_LIMIT
        THEN up.requests = <<Request("direct", 0, up.fileSize, up.fileSize)>>
        ELSE /\ up.requests[1].kind = "session"
             /\ \A k \in DOMAIN up.requests :
                    up.requests[k].kind = IF k = 1 THEN "session" ELSE "chunk"

\* a file of exactly the limit is being sent with the direct PUT
C28_Witness ==
    /\ up.pc = "direct" /\ up.fileSize = SMALL_FILE_LIMIT
    /\ Len(up.requests) = 1

\* ====================================================================== C29
\* the final flush has begun: main is past clearInterval(uploadLoop)
RpcFlushing == job.script = "rpc" /\ main.pc \in {"put", "done"}

\* C29: in stream_upload.js the final flush of [uploadedBytes, totalSize)
\* starts only after the engine has reported the download complete; when the
\* engine process closes without the download being complete the remainder
\* is not uploaded and the run is not reported as completed.
C29_FlushAfterComplete ==
    RpcFlushing => engine.status = "complete"

\* ====================================================================== C30
\* the create-upload-session request has been issued
SessionRequested == main.pc \in {"session", "wait"}

\* C30: in streaming mode the upload session is created before the download
\* engine is started: when the engine starts, the create-upload-session
\* request has been made.
C30_SessionBeforeEngine ==
    [][(engine.proc = "none" /\ engine'.proc = "running") => SessionRequested]_vars

\* ======================================================================= C31
\* C31: the function main runs is the one of the mode it selected and stays
\* that one: a run selected as sequential never enters
\* normalDownloadAndUpload, a run selected as normal or streaming never
\* enters another mode's function, whatever happens while the listing is
\* obtained
StrategyOf(mode) ==
    IF mode = "normal" THEN "normal"
    ELSE IF mode = "streaming" THEN "cli" ELSE "sequential"

C31_ModeNeverChanges ==
    job.script # "none" => job.script = StrategyOf(sel.mode)

\* ======================================================================= C32
\* C32: in every mode the stdout handler refreshes lastProgressTime only on
\* an observation that shows forward motion: a chunk of output with zero
\* connections and no percentage above the highest one seen leaves
\* lastProgressTime as it was
NoForwardMotion(chunk) ==
    /\ chunk.cn = 0
    /\ chunk.progressMatch => chunk.progress <= lastProgress

C32_RefreshOnlyOnMotion ==
    [][\A chunk \in StdoutChunks :
         (NoForwardMotion(chunk) /\ (CliStdoutOn(chunk) \/ SupStdoutOn(chunk)))
            => lastProgressTime' = lastProgressTime]_vars

\* ======================================================================= C33
\* C33: fetchMetadata returns the placeholder only when the metadata could not
\* be parsed: whenever its promise resolves while the name and a positive
\* total size have been parsed from the engine's output, the 120 s timeout
\* included, the result carries the parsed name and size
ParsedInTime == meta.fileName /\ meta.totalSize > 0

C33_PlaceholderOnlyUnparsed ==
    [][(meta.promise = "pending" /\ meta'.promise = "resolved" /\ ParsedInTime)
         => /\ meta'.result.kind = "parsed"
            /\ meta'.result.totalSize = meta.totalSize]_vars

\* ======================================================================= C34
\* C34: backpressure never blocks the run: when the poll ticks keep finding
\* free space above 2 * MIN_FREE_SPACE, an engine the controller has paused
\* is eventually unpaused (or the wait for the download has ended), also
\* when no whole chunk is uploadable
HeldPaused ==
    /\ job.script = "rpc" /\ main.pc = "wait"
    /\ engine.proc = "running" /\ engine.status = "paused"

SpaceRecovered == \E freeSpace \in FreeSpaceSamples :
                    freeSpace > 2 * MIN_FREE_SPACE /\ RpcPollStatusOn(freeSpace)

C34_PauseIsTemporary ==
    ([]<><<SpaceRecovered>>_vars) => (HeldPaused ~> ~HeldPaused)

\* ======================================================================= C35
\* C35: a record is appended to uploadedFiles only when the upload of its
\* file has answered for every byte of it (the direct PUT of the whole file,
\* or chunk PUTs that cover 0..fileSize without a gap), one record at a time
\* at the end of the list, so in the order the uploads finished; and the
\* files posted in the completion callback are exactly that list
Committed(u) ==
    IF u.pc = "direct"
    THEN u.requests = <<Request("direct", 0, u.fileSize, u.fileSize)>>
    ELSE /\ u.pc = "chunk"
         /\ \A k \in 2..Len(u.requests) :
                /\ u.requests[k].kind = "chunk"
                /\ u.requests[k].start = (IF k = 2 THEN 0 ELSE u.requests[k - 1].end)
         /\ u.requests[Len(u.requests)].end = u.fileSize

C35_RecordAfterCommit ==
    [][/\ uploadedFiles' # uploadedFiles =>
            /\ uploadedFiles' = Append(uploadedFiles, up.name)
            /\ Committed(up)
       /\ callback'.posts # callback.posts =>
            callback'.posts = Append(callback.posts,
                                     [status |-> "completed", files |-> uploadedFiles])]_vars

C35_Witness ==
    /\ job.script \in {"normal", "sequential"}
    /\ Len(callback.posts) = 1
    /\ Len(callback.posts[1].files) >= 2
    /\ callback.posts[1].files = uploadedFiles

\* ======================================================================= C36
\* C36: the download promise of normal and sequential mode is settled once, by
\* the first of the stall checker, the absolute (or per-file) timer and the
\* engine's close event: once it is resolved or rejected no later event
\* settles it otherwise, and the failure it was rejected with stays the
\* run's outcome
DownloadDecided == promise \in {"resolved", "rejected"}

C36_DecidedOnce ==
    [][(DownloadDecided /\ promise' # "pending") =>
          /\ promise' = promise
          /\ promise = "rejected" => outcome' = outcome]_vars

\* the absolute timer has decided, and the stall checker, still set, finds
\* the stall condition true
C36_Witness ==
    /\ job.script \in {"normal", "sequential"}
    /\ promise = "rejected" /\ outcome = "TimedOut"
    /\ timers.stallChecker /\ now >= timers.stallDue
    /\ StalledAt(now, lastProgressTime)

\* ======================================================================= C37
\* C37: with hole punching on (useSequential), every range truncateFile
\* reclaims has been uploaded with success before, and every chunk PUT that
\* is dispatched reads a range of which nothing was reclaimed before, however
\* the poll callbacks overlap
Reclaimed(holes) == UNION {o..(o + CHUNK_SIZE - 1) : o \in holes}

PausesInFlight == BagCount(cbs, {r \in DOMAIN cbs : r.pc = "pause"})

CommandsInFlight == PausesInFlight + UnpausesInFlight

C38_PauseUnpauseAlternate ==
    /\ [](job.script = "rpc" =>
            /\ CommandsInFlight <= 1
            /\ (CommandsInFlight = 0 /\ engine.proc = "running")
                  => (isPaused <=> engine.status = "paused"))
    /\ [][job.script = "rpc" =>
            /\ PausesInFlight' > PausesInFlight
                  => (CommandsInFlight = 0 /\ engine.status # "paused")
            /\ UnpausesInFlight' > UnpausesInFlight
                  => (CommandsInFlight = 0 /\ engine.status = "paused")]_vars

\* ======================================================================= C39
\* C39: in sequential mode the per-file timer is set to at least
\* 2 * stallTimeout, and it never fires on a download that has shown no
\* progress since it was started: such a download is ended by the stall
\* checker before (the stall-check period, 1, is shorter than STALL_TIMEOUT)
NoProgressSinceStart == lastProgressTime = timers.setAt

C39_StallBeforeFileTimer ==
    job.script = "sequential" =>
        /\ timers.maxDue - timers.setAt >= 2 * STALL_TIMEOUT
        /\ NoProgressSinceStart => ~fired.max
        /\ (NoProgressSinceStart /\ timers.maxTimer) => now < timers.maxDue

\* a later file's download, started with the smallest per-file time, was
\* ended by the stall checker without having shown progress
C39_Witness ==
    /\ job.script = "sequential" /\ timers.setAt > 0
    /\ timers.maxDue - timers.setAt = 2 * STALL_TIMEOUT
    /\ NoProgressSinceStart
    /\ fired.stall /\ outcome = "Stalled"
    /\ now < timers.maxDue

\* ======================================================================= C40
\* C40: in streamingDownloadAndUpload a run that returns has uploadedBytes
\* equal to the final file size; the final flush sends whole chunks one
\* after the other from the cursor to the final size (at most
\* ceil(remaining / CHUNK_SIZE) PUTs); and every chunk PUT of the session,
\* of the poll loop and of the final flush, declares the same total with
\* 0 <= start < end <= total
PollPutsInRange ==
    \A r \in PollPuts : 0 <= r.start /\ r.start < r.chunkEnd /\ r.chunkEnd <= PollTotal

FlushDispatched == main'.pc = "put" /\ main' # main

C40_FlushCompletesOneTotal ==
    /\ [](job.script = "cli" => PollPutsInRange)
    /\ [][job.script = "cli" =>
            /\ (main.pc # "done" /\ main'.pc = "done") => uploadedBytes' = FlushTotal'
            /\ FlushDispatched =>
                  /\ 0 <= main'.start /\ main'.start < main'.chunkEnd
                  /\ main'.chunkEnd = Min(main'.start + CHUNK_SIZE, FlushTotal')
                  /\ main'.start = IF main.pc = "put" THEN main.chunkEnd ELSE uploadedBytes
            /\ (FlushDispatched /\ main.pc = "wait" /\ lastSent.chunkEnd > 0)
                  => FlushTotal' = PollTotal]_vars

====
